---------------------------- MODULE Spec2Model ----------------------------
(***************************************************************************)
(* Seat-inventory concurrency of flightBooking.com.                        *)
(*                                                                         *)
(* Part I  (Spec): SeatBlockingService of backend/src/services/            *)
(*   seatBlockingService.js (printed in src/backend/src/models/Route.js),  *)
(*   over the Redis lock store (src/backend/src/config/redis.js) and the   *)
(*   Flight document (seats[].isAvailable, availability counters).         *)
(*   Request handlers are processes; every await on Redis or MongoDB is    *)
(*   one atomic step, so handlers interleave between their awaits.         *)
(*                                                                         *)
(* Part II (SpecBooking): the fastify booking routes of routes/bookings.js *)
(*   (src/unnamed/part_000) over the backendnew Flight and Booking models. *)
(*                                                                         *)
(* One flight is modelled: lock keys and documents of different flights    *)
(* are disjoint, so flights do not interact.                               *)
(***************************************************************************)
EXTENDS Integers, Sequences, FiniteSets, TLC

\* ------------------------------------------------------------------ bounds
NumProcs == 2        \* concurrent request handlers
NumSeats == 2        \* seats of the flight, seat ids 1..NumSeats
MaxTime  == 1        \* clock ticks (seconds, abstract units)
MaxHold  == 1        \* largest holdTime / additionalTime a caller passes
SidPool  == 4        \* distinct uuids that can be live at once
MaxCalls == 3        \* service calls issued in one run

Procs == 1..NumProcs
Seats == 1..NumSeats
Users == {"u1", "u2"}
HoldTimes == 1..MaxHold
Sids == 1..SidPool

\* ------------------------------------------------------------ JS values
NullSid == 0                    \* sessionId = null (releaseSeat's default)
UndefinedNum == 0 - 1           \* property read on a non-object: undefined
UndefinedUser == "undefined"
NoUser == "none"

\* The JSON text held under a lock key.  depth counts the JSON.stringify
\* layers around the block object: 0 is the object itself, 1 its JSON text,
\* 2 the JSON text of that text (a JSON string literal).
NullVal == [depth |-> 0, userId |-> NoUser, sessionId |-> NullSid,
            blockedAt |-> 0, expiresAt |-> 0]

BlockData(userId, sessionId, blockedAt, expiresAt) ==
  [depth |-> 0, userId |-> userId, sessionId |-> sessionId,
   blockedAt |-> blockedAt, expiresAt |-> expiresAt]

JSONstringify(v) == [v EXCEPT !.depth = @ + 1]

JSONparse(v) == [v EXCEPT !.depth = @ - 1]

\* obj.userId, obj.sessionId, obj.expiresAt: undefined unless obj is an object
FieldUserId(v) == IF v.depth = 0 THEN v.userId ELSE UndefinedUser

FieldSessionId(v) == IF v.depth = 0 THEN v.sessionId ELSE UndefinedNum

FieldExpiresAt(v) == IF v.depth = 0 THEN v.expiresAt ELSE UndefinedNum

\* ------------------------------------------------------------ Redis
NoKey == [present |-> FALSE, val |-> NullVal, ttl |-> 0]

Entry(val, ttl) == [present |-> TRUE, val |-> val, ttl |-> ttl]

\* client.set(key, val, {EX: ttl, NX: true}): the reply
SetNXReplyAlways(store, key) == "OK"

SetNXReplyXX(store, key) == IF store[key].present THEN "OK" ELSE "nil"

SetNXReply(store, key) == IF store[key].present THEN "nil" ELSE "OK"

\* client.set(key, val, {EX: ttl, NX: true}): the store afterwards
SetNX(store, key, val, ttl) ==
  IF SetNXReply(store, key) = "OK"
    THEN [store EXCEPT ![key] = Entry(val, ttl)]
    ELSE store

\* RedisClient.get
RedisGet(store, key) == store[key]

\* RedisClient.set(key, value, ttl): setEx(key, ttl, JSON.stringify(value))
RedisSet(store, key, value, ttl) ==
  [store EXCEPT ![key] = Entry(JSONstringify(value), ttl)]

\* RedisClient.del
RedisDel(store, key) == [store EXCEPT ![key] = NoKey]

\* RedisClient.expire: a new TTL for a key that exists
RedisExpire(store, key, ttl) ==
  IF store[key].present THEN [store EXCEPT ![key].ttl = ttl] ELSE store

\* client.ttl: -2 for a key that does not exist
RedisTtl(store, key) == IF store[key].present THEN store[key].ttl ELSE 0 - 2

\* one second passes: every TTL runs down and Redis deletes the keys at 0
ExpireKeys(store) ==
  [k \in DOMAIN store |->
     IF store[k].present /\ store[k].ttl > 1
       THEN [store[k] EXCEPT !.ttl = @ - 1]
       ELSE NoKey]

\* getSeatBlock: blockData ? JSON.parse(blockData) : null
NoBlock == [found |-> FALSE, obj |-> NullVal]

getSeatBlock(store, seatNumber) ==
  IF RedisGet(store, seatNumber).present
    THEN [found |-> TRUE, obj |-> JSONparse(RedisGet(store, seatNumber).val)]
    ELSE NoBlock

\* ------------------------------------------------------------ Flight
Classes == {"economy", "business", "first"}

SeatClass(x) == IF x % 2 = 1 THEN "economy" ELSE "business"

CountAvail(seats, S) == Cardinality({x \in S : seats[x].isAvailable})

\* flightSchema.methods.updateAvailability
updateAvailability(seats) ==
  [total    |-> CountAvail(seats, DOMAIN seats),
   economy  |-> CountAvail(seats, {x \in DOMAIN seats : seats[x].class = "economy"}),
   business |-> CountAvail(seats, {x \in DOMAIN seats : seats[x].class = "business"}),
   first    |-> CountAvail(seats, {x \in DOMAIN seats : seats[x].class = "first"})]

AvailFields == {"total", "economy", "business", "first"}


\* flight.availability = availability marks paths modified, and save() sends
\* only those: Unmodified marks a counter that save() leaves alone.  Which
\* paths are marked depends on the Mongoose release: the counters whose value
\* differs from the one read, or the whole availability object once any
\* counter differs.
Unmodified == 0 - 1

NoDelta == [f \in AvailFields |-> Unmodified]

ModifiedPaths(read, computed) ==
  IF computed = read
    THEN {NoDelta}
    ELSE {[f \in AvailFields |-> IF computed[f] = read[f] THEN Unmodified ELSE computed[f]],
          computed}

\* flight.save(): $set of the modified availability paths
SaveAvailability(stored, delta) ==
  [f \in AvailFields |-> IF delta[f] = Unmodified THEN stored[f] ELSE delta[f]]

\* Flight.updateOne({'seats.seatNumber': n}, {$set: {'seats.$.isAvailable': v}})
SetSeatAvailable(seats, seatNumber, v) ==
  [seats EXCEPT ![seatNumber].isAvailable = v]

\* ------------------------------------------------------------ state
VARIABLES
  redis,         \* lock store: seat -> [present, val, ttl]  (key seat_block:<flight>:<seat>)
  seats,         \* Flight.seats: seat -> [class, isAvailable]
  availability,  \* Flight.availability: total / economy / business / first
  now,           \* wall clock
  pc,            \* handler -> the await it is suspended at ("idle": no call)
  loc,           \* handler -> locals of the running call
  ret,           \* handler -> outcome of its last completed call
  calls,         \* service calls issued so far
  booked         \* the seats a booking has taken (marked unavailable, no lock)

hvars == <<redis, seats, availability, now, pc, loc, ret, calls, booked>>

VARIABLE before  \* SpecSeq only: the stores as a blockMultipleSeats call found them

\* The booking routes (fastify): the MongoDB collections and the handlers.
VARIABLES
  flight,        \* the Flight document: [status, availableSeats, bookedSeats]
  bookings,      \* the Booking collection, in insertion order
  bpc,           \* request handler -> where it is in its code
  bloc,          \* request handler -> its local variables
  reply,         \* request handler -> the reply it sent last
  flightWriter,  \* the handler whose open transaction has written the Flight document
  bcalls,        \* number of requests received so far
  hoursLeft      \* hours from the clock to the flight's departure

bvars == <<flight, bookings, bpc, bloc, reply, flightWriter, bcalls, hoursLeft>>

\* The pricing service.
VARIABLES
  mcall,         \* the last call of one of the multiplier functions
  priceCache,    \* class -> the cache entry under price:<flight>:<class>
  fdata,         \* the flight's pricing data, its route and the clock
  qpc,           \* caller -> where its calculateDynamicPrice call is
  qloc,          \* caller -> locals of the call
  quote,         \* class -> the last call for the class: the availability of
                 \* the flight it was passed and what it returned
  qcalls         \* calculateDynamicPrice calls made so far

pvars == <<mcall, priceCache, fdata, qpc, qloc, quote, qcalls>>

vars == <<hvars, before, bvars, pvars>>

\* who holds each seat's lock (holder and session) and each seat's flag
Snapshot ==
  [lock |-> [x \in Seats |-> [present |-> redis[x].present,
                                userId |-> redis[x].val.userId,
                                sessionId |-> redis[x].val.sessionId]],
   isAvailable |-> [x \in Seats |-> seats[x].isAvailable]]

\* ------------------------------------------------------------ locals
\* a result object: the fields of the objects the service returns
NoResult == [op |-> "none", seat |-> 0, success |-> FALSE, error |-> "",
             sessionId |-> NullSid, expiresAt |-> 0, blockedBy |-> NoUser,
             blocked |-> <<>>, failed |-> <<>>, cleaned |-> 0]

\* what the caller of a completed call is left with in ret: which call it
\* was, whether it succeeded and the error it reported
Outcome(r) == [op |-> r.op, seat |-> r.seat, success |-> r.success,
               error |-> r.error]

NoRet == Outcome(NoResult)

IdleLoc == [op |-> "none", phase |-> "", seat |-> 0, userId |-> NoUser,
            sid |-> NullSid, time |-> 0, expiresAt |-> 0, reply |-> "",
            avail |-> FALSE, delta |-> NoDelta, existing |-> NullVal,
            seatNumbers |-> <<>>, idx |-> 0, blocked |-> <<>>, failed |-> <<>>,
            bmSid |-> NullSid, keys |-> {}, cleaned |-> 0, attempt |-> 0]

Range(q) == {q[i] : i \in DOMAIN q}

\* uuidv4(): an id no live value carries
UsedSids ==
  {redis[x].val.sessionId : x \in Seats}
    \cup {loc[p].sid : p \in Procs} \cup {loc[p].bmSid : p \in Procs}
    \cup {loc[p].existing.sessionId : p \in Procs}
    \cup UNION {{b.sessionId : b \in Range(loc[p].blocked)} : p \in Procs}

FreeSids == Sids \ UsedSids

uuidv4 == CHOOSE s \in FreeSids : \A t \in FreeSids : s <= t

\* the session ids a caller passes for a seat: none, the one the lock records,
\* or a uuid of some other hold
SessionArgs(x) ==
  {NullSid} \cup {redis[x].val.sessionId : y \in {x}}
            \cup (IF FreeSids = {} THEN {} ELSE {uuidv4})

\* the user ids a call can carry.  The users are interchangeable, so while no
\* lock and no running call carries a user id the next caller is called u1.
CallerIds ==
  IF (\A x \in Seats : ~redis[x].present) /\ (\A p \in Procs : loc[p].userId = NoUser)
    THEN {"u1"}
    ELSE Users

\* the seat lists a caller passes to blockMultipleSeats: several distinct
\* seats, in any order
SeatLists ==
  {q \in UNION {[1..n -> Seats] : n \in 2..NumSeats} :
     \A i, j \in DOMAIN q : i # j => q[i] # q[j]}

\* a handler takes up a new call
Issue == calls < MaxCalls /\ calls' = calls + 1

\* ------------------------------------------------------------ results
Done(r) == [pc |-> "idle", loc |-> IdleLoc, ret |-> Outcome(r)]

Go(label, l, r) == [pc |-> label, loc |-> l, ret |-> r]

Become(p, o) ==
  /\ pc' = [pc EXCEPT ![p] = o.pc]
  /\ loc' = [loc EXCEPT ![p] = o.loc]
  /\ ret' = [ret EXCEPT ![p] = o.ret]

BlockOk(l) ==
  [NoResult EXCEPT !.op = "blockSeat", !.seat = l.seat, !.success = TRUE,
                !.sessionId = l.sid, !.expiresAt = l.expiresAt]

BlockConflict(l, existing) ==
  [NoResult EXCEPT !.op = "blockSeat", !.seat = l.seat,
                !.error = "Seat is already blocked",
                !.blockedBy = IF existing.found THEN FieldUserId(existing.obj)
                              ELSE UndefinedUser,
                !.expiresAt = IF existing.found THEN FieldExpiresAt(existing.obj)
                              ELSE UndefinedNum]

ReleaseOk(l) ==
  [NoResult EXCEPT !.op = "releaseSeat", !.seat = l.seat, !.success = TRUE]

ReleaseFailed(x, err) ==
  [NoResult EXCEPT !.op = "releaseSeat", !.seat = x, !.error = err]

ExtendOk(l) ==
  [NoResult EXCEPT !.op = "extendSeatBlock", !.seat = l.seat, !.success = TRUE,
                !.expiresAt = l.existing.expiresAt]

ExtendFailed(x, err) ==
  [NoResult EXCEPT !.op = "extendSeatBlock", !.seat = x, !.error = err]

MultiOk(l) ==
  [NoResult EXCEPT !.op = "blockMultipleSeats", !.success = TRUE,
                !.blocked = l.blocked, !.sessionId = l.bmSid,
                !.expiresAt = now + l.time]

MultiFailed(l) ==
  [NoResult EXCEPT !.op = "blockMultipleSeats",
                !.error = "Failed to block all requested seats",
                !.failed = l.failed, !.blocked = l.blocked]

\* this.maxRetries
maxRetries == 3

RetryBlockFailed(l) ==
  [NoResult EXCEPT !.op = "retryBlockSeat", !.seat = l.seat,
                !.error = "Failed to block seat after multiple attempts"]

RetryReleaseFailed(l) ==
  [NoResult EXCEPT !.op = "retryReleaseSeat", !.seat = l.seat,
                !.error = "Failed to release seat after multiple attempts"]

\* ------------------------------------------------------------ continuations
\* blockMultipleSeats after the blockSeat of seatNumbers[idx] returned: push
\* the result, go on with the loop, and after the loop return or roll back.
AfterBlockSeat(l, ok, r) ==
  IF l.op = "blockSeat" THEN Done(r)
  ELSE IF l.op = "retryBlockSeat" THEN
    IF ok THEN Done([r EXCEPT !.op = "retryBlockSeat"])
    ELSE IF l.attempt < maxRetries
      THEN Go("rb_attempt", [l EXCEPT !.attempt = @ + 1, !.sid = NullSid,
                                      !.expiresAt = 0, !.reply = "",
                                      !.delta = NoDelta], NoRet)
    ELSE Done(RetryBlockFailed(l))
  ELSE
    LET l2 == [l EXCEPT
                 !.blocked = IF ok THEN Append(@, [seatNumber |-> l.seat,
                                                   sessionId |-> l.sid])
                             ELSE @,
                 !.failed = IF ok THEN @ ELSE Append(@, l.seat),
                 !.idx = @ + 1, !.seat = 0, !.sid = NullSid, !.expiresAt = 0,
                 !.reply = "", !.delta = NoDelta]
    IN  IF l2.idx <= Len(l2.seatNumbers) THEN Go("bm_block", l2, NoRet)
        ELSE IF l2.failed = <<>> THEN Done(MultiOk(l2))
        ELSE IF l2.blocked = <<>> THEN Done(MultiFailed(l2))
        ELSE Go("bm_release", [l2 EXCEPT !.phase = "rollback", !.idx = 1], NoRet)

\* blockMultipleSeats after the releaseSeat of blocked[idx] returned (its
\* result is not looked at)
AfterReleaseSeat(l, r) ==
  IF l.op = "releaseSeat" THEN Done(r)
  ELSE IF l.op = "retryReleaseSeat" THEN
    IF r.success THEN Done([r EXCEPT !.op = "retryReleaseSeat"])
    ELSE IF l.attempt < maxRetries
      THEN Go("rr_attempt", [l EXCEPT !.attempt = @ + 1, !.avail = FALSE,
                                      !.delta = NoDelta], NoRet)
    ELSE Done(RetryReleaseFailed(l))
  ELSE
    LET l2 == [l EXCEPT !.idx = @ + 1, !.seat = 0, !.avail = FALSE,
                        !.delta = NoDelta]
    IN  IF l2.idx <= Len(l2.blocked) THEN Go("bm_release", l2, NoRet)
        ELSE Done(MultiFailed(l2))

\* ------------------------------------------------------------ blockSeat
\* blockSeat up to the reply of SET NX EX
BlockSeatSet(p, l, x, u, h) ==
  LET sid   == uuidv4
      data  == BlockData(u, sid, now, now + h)
      result == SetNXReply(redis, x)
      l2    == [l EXCEPT !.seat = x, !.userId = u, !.sid = sid, !.time = h,
                         !.expiresAt = now + h, !.reply = result, !.avail = FALSE]
  IN  /\ FreeSids # {}
      /\ redis' = SetNX(redis, x, JSONstringify(data), h)
      /\ Become(p, Go(IF result = "OK" THEN "uss_set" ELSE "bs_existing", l2, NoRet))
      /\ UNCHANGED <<seats, availability, now>>

blockSeat(p) ==
  /\ pc[p] = "idle"
  /\ Issue
  /\ \E x \in Seats, u \in CallerIds, h \in HoldTimes :
       BlockSeatSet(p, [IdleLoc EXCEPT !.op = "blockSeat"], x, u, h)

\* the seat is already blocked: getSeatBlock, return the failure
blockSeatExisting(p) ==
  /\ UNCHANGED calls
  /\ pc[p] = "bs_existing"
  /\ Become(p, AfterBlockSeat(loc[p], FALSE,
                              BlockConflict(loc[p], getSeatBlock(redis, loc[p].seat))))
  /\ UNCHANGED <<redis, seats, availability, now>>

\* ------------------------------------------------------------ updateSeatStatus
updateSeatStatusSet(p) ==
  /\ UNCHANGED calls
  /\ pc[p] = "uss_set"
  /\ seats' = SetSeatAvailable(seats, loc[p].seat, loc[p].avail)
  /\ pc' = [pc EXCEPT ![p] = "uss_find"]
  /\ UNCHANGED <<redis, availability, now, loc, ret>>

\* Flight.findById, then flight.updateAvailability() on the copy read
updateSeatStatusFind(p) ==
  /\ UNCHANGED calls
  /\ pc[p] = "uss_find"
  /\ \E delta \in ModifiedPaths(availability, updateAvailability(seats)) :
       loc' = [loc EXCEPT ![p].delta = delta]
  /\ pc' = [pc EXCEPT ![p] = "uss_save"]
  /\ UNCHANGED <<redis, seats, availability, now, ret>>

\* flight.save(), and the caller's return
updateSeatStatusSave(p) ==
  /\ UNCHANGED calls
  /\ pc[p] = "uss_save"
  /\ availability' = SaveAvailability(availability, loc[p].delta)
  /\ Become(p, IF loc[p].avail
                 THEN AfterReleaseSeat(loc[p], ReleaseOk(loc[p]))
                 ELSE AfterBlockSeat(loc[p], TRUE, BlockOk(loc[p])))
  /\ UNCHANGED <<redis, seats, now>>

\* ------------------------------------------------------------ releaseSeat
ReleaseCheckNoOwner(existing, userId, sessionId) ==
  IF ~existing.found THEN "No active block found for this seat"
  ELSE IF sessionId # NullSid /\ FieldSessionId(existing.obj) # sessionId
    THEN "Invalid session ID"
  ELSE "ok"

ReleaseCheck(existing, userId, sessionId) ==
  IF ~existing.found THEN "No active block found for this seat"
  ELSE IF FieldUserId(existing.obj) # userId THEN "You do not own this seat block"
  ELSE IF sessionId # NullSid /\ FieldSessionId(existing.obj) # sessionId
    THEN "Invalid session ID"
  ELSE "ok"

\* releaseSeat up to the ownership checks
ReleaseSeatGet(p, l, x, u, s) ==
  LET check == ReleaseCheck(getSeatBlock(redis, x), u, s)
      l2    == [l EXCEPT !.seat = x, !.userId = u, !.sid = s, !.avail = TRUE]
  IN  /\ Become(p, IF check = "ok" THEN Go("rel_del", l2, NoRet)
                   ELSE AfterReleaseSeat(l, ReleaseFailed(x, check)))
      /\ UNCHANGED <<redis, seats, availability, now>>

releaseSeat(p) ==
  /\ pc[p] = "idle"
  /\ Issue
  /\ \E x \in Seats, u \in CallerIds :
     \E s \in SessionArgs(x) :
       ReleaseSeatGet(p, [IdleLoc EXCEPT !.op = "releaseSeat"], x, u, s)

releaseSeatDel(p) ==
  /\ UNCHANGED calls
  /\ pc[p] = "rel_del"
  /\ redis' = RedisDel(redis, loc[p].seat)
  /\ pc' = [pc EXCEPT ![p] = "uss_set"]
  /\ loc' = [loc EXCEPT ![p].sid = NullSid]
  /\ UNCHANGED <<seats, availability, now, ret>>

\* ------------------------------------------------------------ extendSeatBlock
ExtendCheck(existing, userId, sessionId) ==
  IF ~existing.found THEN "No active block found"
  ELSE IF FieldUserId(existing.obj) # userId
          \/ FieldSessionId(existing.obj) # sessionId
    THEN "Unauthorized to extend this block"
  ELSE "ok"

extendSeatBlock(p) ==
  /\ pc[p] = "idle"
  /\ Issue
  /\ \E x \in Seats, u \in CallerIds, a \in HoldTimes :
     \E s \in SessionArgs(x) :
       LET existing == getSeatBlock(redis, x)
           check    == ExtendCheck(existing, u, s)
           l2       == [IdleLoc EXCEPT !.op = "extendSeatBlock", !.seat = x,
                                       !.userId = u, !.sid = s, !.time = a,
                                       !.existing = existing.obj]
       IN  Become(p, IF check = "ok" THEN Go("ext_expire", l2, NoRet)
                     ELSE Done(ExtendFailed(x, check)))
  /\ UNCHANGED <<redis, seats, availability, now>>

\* redisClient.expire(lockKey, additionalTime); existingBlock.expiresAt = newExpiresAt
extendSeatBlockExpire(p) ==
  /\ UNCHANGED calls
  /\ pc[p] = "ext_expire"
  /\ redis' = RedisExpire(redis, loc[p].seat, loc[p].time)
  /\ loc' = [loc EXCEPT ![p].existing.expiresAt = now + loc[p].time]
  /\ pc' = [pc EXCEPT ![p] = "ext_set"]
  /\ UNCHANGED <<seats, availability, now, ret>>

\* redisClient.set(lockKey, JSON.stringify(existingBlock), additionalTime)
extendSeatBlockSet(p) ==
  /\ UNCHANGED calls
  /\ pc[p] = "ext_set"
  /\ redis' = RedisSet(redis, loc[p].seat, JSONstringify(loc[p].existing), loc[p].time)
  /\ Become(p, Done(ExtendOk(loc[p])))
  /\ UNCHANGED <<seats, availability, now>>

\* ------------------------------------------------------------ blockMultipleSeats
\* the order in which the loop attempts the seats of the list passed
AttemptOrder(seatNumbers) == seatNumbers

blockMultipleSeats(p) ==
  /\ pc[p] = "idle"
  /\ Issue
  /\ FreeSids # {}
  /\ \E q \in SeatLists, u \in CallerIds, h \in HoldTimes :
       Become(p, Go("bm_block",
                    [IdleLoc EXCEPT !.op = "blockMultipleSeats", !.phase = "block",
                                    !.seatNumbers = AttemptOrder(q), !.userId = u,
                                    !.time = h, !.bmSid = uuidv4, !.idx = 1],
                    NoRet))
  /\ UNCHANGED <<redis, seats, availability, now>>

\* for (const seatNumber of seatNumbers) await this.blockSeat(...)
blockMultipleSeatsBlock(p) ==
  /\ UNCHANGED calls
  /\ pc[p] = "bm_block"
  /\ BlockSeatSet(p, loc[p], loc[p].seatNumbers[loc[p].idx], loc[p].userId, loc[p].time)

\* for (const { seatNumber } of blocked) await this.releaseSeat(flightId, seatNumber, userId)
blockMultipleSeatsRelease(p) ==
  /\ UNCHANGED calls
  /\ pc[p] = "bm_release"
  /\ ReleaseSeatGet(p, loc[p], loc[p].blocked[loc[p].idx].seatNumber,
                    loc[p].userId, NullSid)

\* ------------------------------------------------------------ cleanupExpiredBlocks
cleanupExpiredBlocks(p) ==
  /\ pc[p] = "idle"
  /\ Issue
  /\ LET keys == {x \in Seats : redis[x].present}
     IN  Become(p, IF keys = {}
                     THEN Done([NoResult EXCEPT !.op = "cleanupExpiredBlocks",
                                             !.success = TRUE])
                     ELSE Go("cl_ttl", [IdleLoc EXCEPT !.op = "cleanupExpiredBlocks",
                                                       !.keys = keys], NoRet))
  /\ UNCHANGED <<redis, seats, availability, now>>

\* const ttl = await redisClient.client.ttl(key); if (ttl === -2) cleaned++
cleanupExpiredBlocksTtl(p) ==
  /\ UNCHANGED calls
  /\ pc[p] = "cl_ttl"
  /\ \E k \in loc[p].keys :
       LET l2 == [loc[p] EXCEPT
                    !.keys = @ \ {k},
                    !.cleaned = IF RedisTtl(redis, k) = 0 - 2 THEN @ + 1 ELSE @]
       IN  Become(p, IF l2.keys = {}
                       THEN Done([NoResult EXCEPT !.op = "cleanupExpiredBlocks",
                                               !.success = TRUE,
                                               !.cleaned = l2.cleaned])
                       ELSE Go("cl_ttl", l2, NoRet))
  /\ UNCHANGED <<redis, seats, availability, now>>

\* ------------------------------------------------------------ retry wrappers
\* for (let attempt = 1; attempt <= this.maxRetries; attempt++) blockSeat(...)
retryBlockSeat(p) ==
  /\ pc[p] = "idle"
  /\ Issue
  /\ \E x \in Seats, u \in CallerIds, h \in HoldTimes :
       Become(p, Go("rb_attempt",
                    [IdleLoc EXCEPT !.op = "retryBlockSeat", !.seat = x,
                                    !.userId = u, !.time = h, !.attempt = 1],
                    NoRet))
  /\ UNCHANGED <<redis, seats, availability, now>>

retryBlockSeatAttempt(p) ==
  /\ UNCHANGED calls
  /\ pc[p] = "rb_attempt"
  /\ BlockSeatSet(p, loc[p], loc[p].seat, loc[p].userId, loc[p].time)

\* for (let attempt = 1; attempt <= this.maxRetries; attempt++) releaseSeat(...)
retryReleaseSeat(p) ==
  /\ pc[p] = "idle"
  /\ Issue
  /\ \E x \in Seats, u \in CallerIds :
     \E s \in SessionArgs(x) :
       Become(p, Go("rr_attempt",
                    [IdleLoc EXCEPT !.op = "retryReleaseSeat", !.seat = x,
                                    !.userId = u, !.sid = s, !.attempt = 1],
                    NoRet))
  /\ UNCHANGED <<redis, seats, availability, now>>

retryReleaseSeatAttempt(p) ==
  /\ UNCHANGED calls
  /\ pc[p] = "rr_attempt"
  /\ ReleaseSeatGet(p, loc[p], loc[p].seat, loc[p].userId, loc[p].sid)

\* ------------------------------------------------------------ time
Tick ==
  /\ now < MaxTime
  /\ now' = now + 1
  /\ redis' = ExpireKeys(redis)
  /\ UNCHANGED <<seats, availability, pc, loc, ret, calls>>

\* ================================================================ bookings
\* The booking routes: creating, cancelling, checking in, paying for a
\* booking and the admin's status update.  Every await on MongoDB is one step.
\* The writes of a transaction become visible at its commit; a
\* transaction that writes a document another transaction has written, or that
\* was committed to after its own snapshot, fails with a write conflict.
MaxRequests == 3

FlightId == "F"

\* the flightId of a request: the flight, or an id no flight has
FlightIds == {FlightId, "unknown"}

\* hours between the clock a request reads and the departure (hoursLeft)
Hours == {0, 1, 2, 3, 24, 25}

Roles == {"user", "admin"}

includes(array, e) == \E i \in DOMAIN array : array[i] = e

\* $pull: { field: e } and $push: { field: e }
Pull(array, e) == SelectSeq(array, LAMBDA y : y # e)

Push(array, e) == Append(array, e)

isBookable(f, hoursUntilFlight) ==
  /\ f.status = "scheduled"
  /\ hoursUntilFlight > 2
  /\ Len(f.availableSeats) > 0

\* a Booking document; paymentStatus is the payment status it stores
\* (paymentStatus in the fastify schema, payment.status in the express one)
Booking(user, seatNumber, status) ==
  [user |-> user, flight |-> FlightId, seatNumber |-> seatNumber, status |-> status,
   paymentStatus |-> "pending", checkedIn |-> FALSE]

NoReply == [code |-> 0, message |-> ""]

Send(code, message) == [code |-> code, message |-> message]

IdleBloc == [op |-> "none", userId |-> NoUser, role |-> "", seatNumber |-> 0,
             stale |-> FALSE, bookingId |-> 0, status |-> "", newStatus |-> ""]

\* the handler sends its reply and ends
Replies(p, r) ==
  /\ bpc' = [bpc EXCEPT ![p] = "idle"]
  /\ bloc' = [bloc EXCEPT ![p] = IdleBloc]
  /\ reply' = [reply EXCEPT ![p] = r]

\* Booking.findOne({ user, flight, status: { $in: ['confirmed', 'checked-in'] } })
existingBooking(userId) ==
  \E i \in DOMAIN bookings :
    /\ bookings[i].user = userId
    /\ bookings[i].status \in {"confirmed", "checked-in"}

\* Flight.findById, isBookable, availableSeats.includes
createBooking(p) ==
  /\ bpc[p] = "idle"
  /\ bcalls < MaxRequests
  /\ bcalls' = bcalls + 1
  /\ \E id \in FlightIds, seatNumber \in Seats, userId \in Users :
       IF id # FlightId
         THEN Replies(p, Send(404, "Flight not found"))
       ELSE IF ~isBookable(flight, hoursLeft)
         THEN Replies(p, Send(400, "Flight is not available for booking"))
       ELSE IF ~includes(flight.availableSeats, seatNumber)
         THEN Replies(p, Send(400, "Selected seat is not available"))
       ELSE /\ bpc' = [bpc EXCEPT ![p] = "b_existing"]
            /\ bloc' = [bloc EXCEPT ![p] = [IdleBloc EXCEPT !.op = "create",
                                                           !.userId = userId,
                                                           !.seatNumber = seatNumber]]
            /\ reply' = [reply EXCEPT ![p] = NoReply]
  /\ UNCHANGED <<flight, bookings, flightWriter>>

createBookingExisting(p) ==
  /\ bpc[p] = "b_existing"
  /\ IF existingBooking(bloc[p].userId)
       THEN Replies(p, Send(400, "You already have a booking for this flight"))
       ELSE /\ bpc' = [bpc EXCEPT ![p] = "b_save"]
            /\ UNCHANGED <<bloc, reply>>
  /\ UNCHANGED <<flight, bookings, flightWriter, bcalls>>

\* session.startTransaction(); booking.save({ session }): the transaction's
\* snapshot is taken here
createBookingSave(p) ==
  /\ bpc[p] = "b_save"
  /\ bpc' = [bpc EXCEPT ![p] = "b_update"]
  /\ bloc' = [bloc EXCEPT ![p].stale = FALSE]
  /\ UNCHANGED <<flight, bookings, reply, flightWriter, bcalls>>

\* Flight.findByIdAndUpdate(flightId, { $pull, $push }, { session }); on a write
\* conflict abortTransaction and the 500 reply
createBookingUpdate(p) ==
  /\ bpc[p] = "b_update"
  /\ IF flightWriter # 0 \/ bloc[p].stale
       THEN /\ Replies(p, Send(500, "Server error creating booking"))
            /\ UNCHANGED flightWriter
       ELSE /\ flightWriter' = p
            /\ bpc' = [bpc EXCEPT ![p] = "b_commit"]
            /\ UNCHANGED <<bloc, reply>>
  /\ UNCHANGED <<flight, bookings, bcalls>>

\* a transaction commits a write to the Flight document: the open
\* transactions that have not written it yet now hold a stale snapshot
Committed(p, l) ==
  [q \in Procs |->
     IF q = p THEN l
     ELSE IF bpc[q] \in {"b_update", "x_flight"} THEN [bloc[q] EXCEPT !.stale = TRUE]
     ELSE bloc[q]]

\* session.commitTransaction()
createBookingCommit(p) ==
  /\ bpc[p] = "b_commit"
  /\ bookings' = Append(bookings, Booking(bloc[p].userId, bloc[p].seatNumber, "confirmed"))
  /\ flight' = [flight EXCEPT
                  !.availableSeats = Pull(@, bloc[p].seatNumber),
                  !.bookedSeats = Push(@, bloc[p].seatNumber)]
  /\ flightWriter' = 0
  /\ bpc' = [bpc EXCEPT ![p] = "b_populate"]
  /\ bloc' = Committed(p, [bloc[p] EXCEPT !.bookingId = Len(bookings) + 1])
  /\ UNCHANGED <<reply, bcalls>>

\* booking.populate('flight', ...) and the 201 reply; if the query fails, the
\* catch block (abortTransaction on the committed session throws) and the 500
createBookingPopulate(p) ==
  /\ bpc[p] = "b_populate"
  /\ \E populated \in BOOLEAN :
       Replies(p, IF populated THEN Send(201, "Booking created successfully")
                               ELSE Send(500, "Server error creating booking"))
  /\ UNCHANGED <<flight, bookings, flightWriter, bcalls>>

\* the ids a request can name: the bookings made so far and one more
BookingIds == 1..MaxRequests

\* Booking.findOne(query): by _id, and by user unless the caller is an admin
FindBooking(id, userId, role) ==
  /\ id \in DOMAIN bookings
  /\ role = "admin" \/ bookings[id].user = userId

\* an open transaction has written the booking document
BookingLocked(id) ==
  \E q \in Procs : bpc[q] \in {"x_flight", "x_commit"} /\ bloc[q].bookingId = id

\* PUT /:id/cancel: find the booking, the status checks, the cancellation policy
cancelBooking(p) ==
  /\ bpc[p] = "idle"
  /\ bcalls < MaxRequests
  /\ bcalls' = bcalls + 1
  /\ \E id \in BookingIds, userId \in Users, userRole \in Roles :
       IF ~FindBooking(id, userId, userRole)
         THEN Replies(p, Send(404, "Booking not found"))
       ELSE IF bookings[id].status = "cancelled"
         THEN Replies(p, Send(400, "Booking is already cancelled"))
       ELSE IF bookings[id].status = "completed"
         THEN Replies(p, Send(400, "Cannot cancel completed booking"))
       ELSE IF hoursLeft < 2 /\ userRole # "admin"
         THEN Replies(p, Send(400, "Cannot cancel booking within 2 hours of departure"))
       ELSE /\ bpc' = [bpc EXCEPT ![p] = "x_booking"]
            /\ bloc' = [bloc EXCEPT ![p] = [IdleBloc EXCEPT
                                              !.op = "cancel",
                                              !.userId = userId,
                                              !.role = userRole,
                                              !.bookingId = id,
                                              !.seatNumber = bookings[id].seatNumber,
                                              !.status = bookings[id].status]]
            /\ reply' = [reply EXCEPT ![p] = NoReply]
  /\ UNCHANGED <<flight, bookings, flightWriter>>

\* session.startTransaction(); Booking.findByIdAndUpdate(bookingId, { status:
\* 'cancelled' }, { session }); a write conflict if another open transaction
\* has written the booking
cancelBookingStatus(p) ==
  /\ bpc[p] = "x_booking"
  /\ IF BookingLocked(bloc[p].bookingId)
       THEN Replies(p, Send(500, "Server error cancelling booking"))
       ELSE /\ bpc' = [bpc EXCEPT ![p] = "x_flight"]
            /\ bloc' = [bloc EXCEPT ![p].stale = FALSE]
            /\ UNCHANGED reply
  /\ UNCHANGED <<flight, bookings, flightWriter, bcalls>>

\* Flight.findByIdAndUpdate(booking.flight._id, { $pull, $push }, { session })
cancelBookingFlight(p) ==
  /\ bpc[p] = "x_flight"
  /\ IF flightWriter # 0 \/ bloc[p].stale
       THEN /\ Replies(p, Send(500, "Server error cancelling booking"))
            /\ UNCHANGED flightWriter
       ELSE /\ flightWriter' = p
            /\ bpc' = [bpc EXCEPT ![p] = "x_commit"]
            /\ UNCHANGED <<bloc, reply>>
  /\ UNCHANGED <<flight, bookings, bcalls>>

\* session.commitTransaction() and the reply
cancelBookingCommit(p) ==
  /\ bpc[p] = "x_commit"
  /\ bookings' = [bookings EXCEPT ![bloc[p].bookingId].status = "cancelled"]
  /\ flight' = [flight EXCEPT
                  !.bookedSeats = Pull(@, bloc[p].seatNumber),
                  !.availableSeats = Push(@, bloc[p].seatNumber)]
  /\ flightWriter' = 0
  /\ bpc' = [bpc EXCEPT ![p] = "idle"]
  /\ bloc' = Committed(p, IdleBloc)
  /\ reply' = [reply EXCEPT ![p] = Send(200, "Booking cancelled successfully")]
  /\ UNCHANGED bcalls

CheckInClosedNever(hoursDifference) == hoursDifference < 0

\* if (hoursDifference < 1): check-in has closed
CheckInClosed(hoursDifference) == hoursDifference < 1

\* PUT /:id/checkin: find the booking, the status check, the check-in window
checkIn(p) ==
  /\ bpc[p] = "idle"
  /\ bcalls < MaxRequests
  /\ bcalls' = bcalls + 1
  /\ \E id \in BookingIds, userId \in Users, userRole \in Roles :
       IF ~FindBooking(id, userId, userRole)
         THEN Replies(p, Send(404, "Booking not found"))
       ELSE IF bookings[id].status # "confirmed"
         THEN Replies(p, Send(400, "Only confirmed bookings can be checked in"))
       ELSE IF hoursLeft > 24
         THEN Replies(p, Send(400, "Check-in opens 24 hours before departure"))
       ELSE IF CheckInClosed(hoursLeft)
         THEN Replies(p, Send(400, "Check-in closes 1 hour before departure"))
       ELSE /\ bpc' = [bpc EXCEPT ![p] = "k_update"]
            /\ bloc' = [bloc EXCEPT ![p] = [IdleBloc EXCEPT
                                              !.op = "checkin",
                                              !.userId = userId,
                                              !.role = userRole,
                                              !.bookingId = id,
                                              !.seatNumber = bookings[id].seatNumber,
                                              !.status = bookings[id].status]]
            /\ reply' = [reply EXCEPT ![p] = NoReply]
  /\ UNCHANGED <<flight, bookings, flightWriter>>

\* Booking.findByIdAndUpdate(bookingId, { status: 'checked-in' }): outside any
\* transaction, it waits for a transaction that has written the booking
checkInUpdate(p) ==
  /\ bpc[p] = "k_update"
  /\ ~BookingLocked(bloc[p].bookingId)
  /\ bookings' = [bookings EXCEPT ![bloc[p].bookingId].status = "checked-in"]
  /\ Replies(p, Send(200, "Check-in successful"))
  /\ UNCHANGED <<flight, flightWriter, bcalls>>

\* Booking.canCheckIn.  found: Flight.findById returned the flight.  parsed:
\* new Date(flight.date + ' ' + flight.departureTime) is a date; the string is
\* a Date's text form followed by a time, which the engine need not parse, and
\* every comparison with the NaN of an invalid date is false.
canCheckIn(booking, found, parsed, hoursUntilFlight) ==
  IF booking.checkedIn \/ booking.status # "confirmed" THEN FALSE
  ELSE IF ~found THEN FALSE
  ELSE parsed /\ hoursUntilFlight <= 24 /\ hoursUntilFlight >= 2

\* the departure comes nearer
Elapse ==
  /\ \E h \in Hours : h < hoursLeft /\ hoursLeft' = h
  /\ UNCHANGED <<flight, bookings, bpc, bloc, reply, flightWriter, bcalls>>

\* ------------------------------------------------------------ express routes
\* The booking routes of the express application: payment, cancel and the
\* admin's status update, over the Booking collection and the Flight
\* document with its seats.

\* body('status').isIn([...])
AdminStatuses == {"pending", "confirmed", "cancelled", "completed"}

\* booking.save(): writes the paths the handler assigned; an assignment of
\* the value the document was loaded with is no modification
SaveStatus(bs, id, loaded, assigned) ==
  IF assigned = loaded THEN bs ELSE [bs EXCEPT ![id].status = assigned]

\* the top-level paths of the express bookingSchema.  The schema is strict: a
\* property of a document that is not a path reads undefined, and a value
\* assigned to it is not saved.
BookingPaths ==
  {"bookingId", "user", "flight", "passengers", "seats", "pricing", "payment",
   "status", "contact", "checkin", "cancellation", "metadata"}

\* booking.expiresAt && new Date() > booking.expiresAt, where pastExpiry says
\* whether the time the booking was given to pay in is over
HasExpired(pastExpiry) == "expiresAt" \in BookingPaths /\ pastExpiry

\* POST /payment: Booking.findOne({ _id, userId, status: 'pending' }), expiresAt
processPayment(p) ==
  /\ bpc[p] = "idle"
  /\ bcalls < MaxRequests
  /\ bcalls' = bcalls + 1
  /\ \E id \in BookingIds, userId \in Users, expired \in BOOLEAN :
       IF ~(/\ id \in DOMAIN bookings
            /\ bookings[id].user = userId
            /\ bookings[id].status = "pending")
         THEN Replies(p, Send(404, "Booking not found or already processed"))
       ELSE IF HasExpired(expired)
         THEN Replies(p, Send(400, "Booking has expired"))
       ELSE /\ bpc' = [bpc EXCEPT ![p] = "pay_process"]
            /\ bloc' = [bloc EXCEPT ![p] = [IdleBloc EXCEPT
                                              !.op = "payment",
                                              !.userId = userId,
                                              !.bookingId = id,
                                              !.seatNumber = bookings[id].seatNumber,
                                              !.status = bookings[id].status]]
            /\ reply' = [reply EXCEPT ![p] = NoReply]
  /\ UNCHANGED <<bookings, seats, availability, booked>>

\* paymentResult = await bookingService.processPayment(...): the payment
\* succeeds or not
processPaymentResult(p) ==
  /\ bpc[p] = "pay_process"
  /\ \E success \in BOOLEAN :
       IF ~success
         THEN Replies(p, Send(400, "paymentResult.message"))
         ELSE /\ bpc' = [bpc EXCEPT ![p] = "pay_save"]
              /\ bloc' = [bloc EXCEPT ![p].newStatus = "confirmed"]
              /\ UNCHANGED reply
  /\ UNCHANGED <<bookings, seats, availability, booked, bcalls>>

\* booking.status = 'confirmed'; booking.paymentStatus = 'completed';
\* booking.paymentDetails = {...}; await booking.save(); the reply
processPaymentSave(p) ==
  /\ bpc[p] = "pay_save"
  /\ bookings' = [SaveStatus(bookings, bloc[p].bookingId, bloc[p].status,
                             bloc[p].newStatus)
                   EXCEPT ![bloc[p].bookingId].paymentStatus =
                            IF "paymentStatus" \in BookingPaths THEN "completed" ELSE @]
  /\ Replies(p, Send(200, "Payment processed successfully"))
  /\ UNCHANGED <<seats, availability, booked, bcalls>>

\* PUT /admin/:bookingId/status: the role check, Booking.findById
adminUpdateStatus(p) ==
  /\ bpc[p] = "idle"
  /\ bcalls < MaxRequests
  /\ bcalls' = bcalls + 1
  /\ \E id \in BookingIds, userId \in Users, role \in Roles, status \in AdminStatuses :
       IF role # "admin"
         THEN Replies(p, Send(403, "Access denied. Admin role required."))
       ELSE IF id \notin DOMAIN bookings
         THEN Replies(p, Send(404, "Booking not found"))
       ELSE /\ bpc' = [bpc EXCEPT ![p] = "a_save"]
            /\ bloc' = [bloc EXCEPT ![p] = [IdleBloc EXCEPT
                                              !.op = "admin",
                                              !.userId = userId,
                                              !.role = role,
                                              !.bookingId = id,
                                              !.seatNumber = bookings[id].seatNumber,
                                              !.status = bookings[id].status,
                                              !.newStatus = status]]
            /\ reply' = [reply EXCEPT ![p] = NoReply]
  /\ UNCHANGED <<bookings, seats, availability, booked>>

\* booking.status = status; await booking.save(); the reply
adminUpdateStatusSave(p) ==
  /\ bpc[p] = "a_save"
  /\ bookings' = SaveStatus(bookings, bloc[p].bookingId, bloc[p].status, bloc[p].newStatus)
  /\ Replies(p, Send(200, "Booking status updated successfully"))
  /\ UNCHANGED <<seats, availability, booked, bcalls>>

\* POST /:bookingId/cancel: Booking.findOne({ _id, userId, status: { $in:
\* ['pending', 'confirmed'] } }), the 2 hour check
userCancel(p) ==
  /\ bpc[p] = "idle"
  /\ bcalls < MaxRequests
  /\ bcalls' = bcalls + 1
  /\ \E id \in BookingIds, userId \in Users :
       IF ~(/\ id \in DOMAIN bookings
            /\ bookings[id].user = userId
            /\ bookings[id].status \in {"pending", "confirmed"})
         THEN Replies(p, Send(404, "Booking not found or cannot be cancelled"))
       ELSE IF hoursLeft <= 2
         THEN Replies(p, Send(400, "Cannot cancel booking less than 2 hours before departure"))
       ELSE /\ bpc' = [bpc EXCEPT ![p] = "c_service"]
            /\ bloc' = [bloc EXCEPT ![p] = [IdleBloc EXCEPT
                                              !.op = "userCancel",
                                              !.userId = userId,
                                              !.bookingId = id,
                                              !.seatNumber = bookings[id].seatNumber,
                                              !.status = bookings[id].status]]
            /\ reply' = [reply EXCEPT ![p] = NoReply]
  /\ UNCHANGED <<bookings, seats, availability, booked>>

\* bookingService.cancelBooking(bookingId, userId, reason): in one atomic step
\* the status becomes cancelled, the seat goes back to available and the
\* availability counters are recomputed; refused unless the booking is
\* pending or confirmed
cancelBookingService(p) ==
  /\ bpc[p] = "c_service"
  /\ IF bookings[bloc[p].bookingId].status \in {"pending", "confirmed"}
       THEN /\ bookings' = [bookings EXCEPT ![bloc[p].bookingId].status = "cancelled"]
            /\ seats' = SetSeatAvailable(seats, bloc[p].seatNumber, TRUE)
            /\ availability' = updateAvailability(seats')
            /\ booked' = booked \ {bloc[p].seatNumber}
            /\ Replies(p, Send(200, "Booking cancelled successfully"))
       ELSE /\ Replies(p, Send(400, "cancelResult.message"))
            /\ UNCHANGED <<bookings, seats, availability, booked>>
  /\ UNCHANGED bcalls

\* ------------------------------------------------------------ pricing service
\* Prices are in cents and multipliers in tenths: 1.8 is 18.

\* moment's a.diff(b, 'hours'): the difference truncated toward zero
DiffHours(minutes) ==
  IF minutes >= 0 THEN minutes \div 60 ELSE -((-minutes) \div 60)

\* minutes from now to the departure, around every step of the staircase
Minutes ==
  {-120, -60, -59, -1, 0, 1, 359, 360, 361, 419, 420, 1439, 1440, 1441, 1500,
   4319, 4320, 4321, 4380, 10079, 10080, 10081, 10140, 20000}

calculateTimeMultiplier(minutesUntilDeparture) ==
  LET hoursUntilDeparture == DiffHours(minutesUntilDeparture)
  IN  IF hoursUntilDeparture < 0 THEN 10
      ELSE IF hoursUntilDeparture <= 6 THEN 18
      ELSE IF hoursUntilDeparture <= 24 THEN 15
      ELSE IF hoursUntilDeparture <= 72 THEN 13
      ELSE IF hoursUntilDeparture <= 168 THEN 11
      ELSE 10

\* a || b on numbers: 0 is falsy
OrElse(a, b) == IF a # 0 THEN a ELSE b

\* the staircase on occupancyRate = (totalSeats - availableSeats) / totalSeats * 100
calculateDemandMultiplier(capacity, avail, seatClass) ==
  LET totalSeats == OrElse(capacity[seatClass], capacity.total)
      availableSeats == OrElse(avail[seatClass], avail.total)
      occupied == (totalSeats - availableSeats) * 100
  IN  IF totalSeats = 0 THEN 10
      ELSE IF occupied >= 90 * totalSeats THEN 20
      ELSE IF occupied >= 80 * totalSeats THEN 17
      ELSE IF occupied >= 70 * totalSeats THEN 14
      ELSE IF occupied >= 60 * totalSeats THEN 12
      ELSE IF occupied >= 50 * totalSeats THEN 11
      ELSE 10

MathMinLeft(a, b) == a

MathMin(a, b) == IF a < b THEN a ELSE b

\* Route.findOne(...): no route, or a route whose popularity (0.1 to 5, in
\* tenths) may be absent
NoRoute == [found |-> FALSE, popularity |-> 0, seasonalMultipliers |-> <<>>]

Popularities == {0, 1, 10, 19, 20, 21, 50}

\* the lookup throws (failed) or gives the route
calculateRouteMultiplier(route, failed) ==
  IF failed THEN 10
  ELSE IF ~route.found THEN 10
  ELSE MathMin(OrElse(route.popularity, 10), 20)

\* moment(departureTime).day(): 0 is Sunday
calculateDayMultiplier(dayOfWeek) ==
  IF dayOfWeek = 0 \/ dayOfWeek = 6 THEN 12
  ELSE IF dayOfWeek = 5 THEN 11
  ELSE 10

\* moment(s, 'MM-DD'): the day of the current year (not a leap year), at 00:00
MonthStart(m) == <<0, 31, 59, 90, 120, 151, 181, 212, 243, 273, 304, 334>>[m]

ParseMMDD(md) == MonthStart(md[1]) + md[2]

\* the dates of the model: <<month, day>>
Dates == {<<1, 1>>, <<1, 15>>, <<2, 1>>, <<6, 30>>, <<12, 1>>, <<12, 31>>}

isDateInRange(currentDate, startDate, endDate) ==
  LET current == ParseMMDD(currentDate)
      start == ParseMMDD(startDate)
      end == ParseMMDD(endDate)
  IN  IF start > end
        THEN current > start \/ current < end
        ELSE start <= current /\ current <= end

Seasonal(startDate, endDate, multiplier) ==
  [startDate |-> startDate, endDate |-> endDate, multiplier |-> multiplier]

\* the multiplier of the first range in the list that has the date, or 0
RECURSIVE FirstSeasonal(_, _)
FirstSeasonal(seasonalMultipliers, currentDate) ==
  IF seasonalMultipliers = <<>> THEN 0
  ELSE IF isDateInRange(currentDate, Head(seasonalMultipliers).startDate,
                        Head(seasonalMultipliers).endDate)
    THEN Head(seasonalMultipliers).multiplier
  ELSE FirstSeasonal(Tail(seasonalMultipliers), currentDate)

calculateSeasonalMultiplier(route, failed, currentDate) ==
  IF failed THEN 10
  ELSE IF ~route.found THEN 10
  ELSE LET m == FirstSeasonal(route.seasonalMultipliers, currentDate)
       IN  IF m = 0 THEN 10 ELSE m

\* the seasonal ranges a route is configured with: none, one or two
SeasonalRanges ==
  {Seasonal(a, b, m) : a \in Dates, b \in Dates, m \in {12}}
    \cup {Seasonal(<<6, 30>>, <<12, 1>>, 15)}

SeasonalLists ==
  {<<>>} \cup {<<r>> : r \in SeasonalRanges}
         \cup {<<Seasonal(<<6, 30>>, <<12, 1>>, 15), r>> : r \in SeasonalRanges}

\* the seat counts of one class and of the other classes together
MaxCapacity == 10

Counts == [economy : 0..MaxCapacity, business : {0, 2}, first : {0}]

WithTotal(c) == [economy |-> c.economy, business |-> c.business, first |-> c.first,
                 total |-> c.economy + c.business + c.first]

NoCall == [fn |-> "none", arg |-> <<>>, out |-> 0]

\* ------------------------------------------------------------ calculateDynamicPrice
MaxQuotes == 3

PricedClasses == {"economy", "business"}

\* flight.capacity: the seats of each class
Capacity ==
  [total    |-> NumSeats,
   economy  |-> Cardinality({x \in Seats : SeatClass(x) = "economy"}),
   business |-> Cardinality({x \in Seats : SeatClass(x) = "business"}),
   first    |-> Cardinality({x \in Seats : SeatClass(x) = "first"})]

\* multipliers[seatClass] || 1, in tenths
ClassMultiplier(seatClass) ==
  IF seatClass = "business" THEN 25 ELSE IF seatClass = "first" THEN 40 ELSE 10

\* flight.pricing.basePrice * multiplier, in tenths of a cent
getBasePriceFlat(f, seatClass) == f.basePrice * 10

getBasePriceForClass(f, seatClass) == f.basePrice * ClassMultiplier(seatClass)

\* Math.round(finalPrice * 100) / 100 for finalPrice = num / den cents, in
\* cents.  The product is computed in binary floating point: away from a
\* half cent it rounds to the nearest cent, at an exact half cent the error
\* of the product decides between the two neighbours (tieUp).
MathRound(num, den, tieUp) ==
  LET down == num \div den
      rest == num % den
  IN  IF 2 * rest < den THEN down
      ELSE IF 2 * rest > den THEN down + 1
      ELSE IF tieUp THEN down + 1 ELSE down

\* redisClient.set's JSON.stringify(finalPrice) and the JSON.parse of a hit:
\* the text of a number, and the number of that text
StringifyNumber(n) == [json |-> "number", text |-> n]

ParseNumber(t) == t.text

NoEntry == [present |-> FALSE, val |-> StringifyNumber(0), avail |-> <<>>]

NoMultipliers == [time |-> 0, demand |-> 0, route |-> 0, day |-> 0, seasonal |-> 0]

\* what a call returns: the object of a computed price, or the bare number
\* parsed from the cache
NoQuote == [shape |-> "none", basePrice |-> 0, finalPrice |-> 0,
            multipliers |-> NoMultipliers, avail |-> <<>>]

PriceObject(basePrice, finalPrice, multipliers) ==
  [shape |-> "object", basePrice |-> basePrice, finalPrice |-> finalPrice,
   multipliers |-> multipliers, avail |-> <<>>]

PriceNumber(n) ==
  [shape |-> "number", basePrice |-> 0, finalPrice |-> n, multipliers |-> NoMultipliers,
   avail |-> <<>>]

IdleQloc == [seatClass |-> "", avail |-> <<>>, result |-> NoQuote]

\* the flight's pricing data, the route document and the clock
FlightData(basePrice, minutes, dayOfWeek, route, today, tieUp) ==
  [basePrice |-> basePrice, minutes |-> minutes, dayOfWeek |-> dayOfWeek,
   route |-> route, today |-> today, tieUp |-> tieUp, currentPrice |-> 0]

DefaultData == FlightData(10, 20000, 1, NoRoute, <<1, 1>>, TRUE)

\* lines 468-492: the price computed from the flight the caller passed
ComputedPrice(f, avail, seatClass) ==
  LET basePrice == getBasePriceForClass(f, seatClass)
      m == [time     |-> calculateTimeMultiplier(f.minutes),
            demand   |-> calculateDemandMultiplier(Capacity, avail, seatClass),
            route    |-> calculateRouteMultiplier(f.route, FALSE),
            day      |-> calculateDayMultiplier(f.dayOfWeek),
            seasonal |-> calculateSeasonalMultiplier(f.route, FALSE, f.today)]
  IN  PriceObject(basePrice,
                  MathRound(basePrice * m.time * m.demand * m.route * m.day * m.seasonal,
                            1000000, f.tieUp),
                  m)

\* the caller loads the flight and calls; redisClient.get(cacheKey): a hit
\* returns JSON.parse(cachedPrice), a miss computes the price
calculateDynamicPrice(p) ==
  /\ qpc[p] = "idle"
  /\ qcalls < MaxQuotes
  /\ qcalls' = qcalls + 1
  /\ \E seatClass \in PricedClasses :
       IF priceCache[seatClass].present
         THEN /\ quote' = [quote EXCEPT
                             ![seatClass] =
                               [PriceNumber(ParseNumber(priceCache[seatClass].val))
                                  EXCEPT !.avail = availability]]
              /\ UNCHANGED <<qpc, qloc>>
         ELSE /\ qloc' = [qloc EXCEPT
                            ![p] = [seatClass |-> seatClass,
                                    avail |-> availability,
                                    result |-> ComputedPrice(fdata, availability, seatClass)]]
              /\ qpc' = [qpc EXCEPT ![p] = "q_set"]
              /\ UNCHANGED quote
  /\ UNCHANGED <<mcall, priceCache, fdata>>

\* redisClient.set(cacheKey, finalPrice, 300), updateFlightPrice, return
calculateDynamicPriceSet(p) ==
  /\ qpc[p] = "q_set"
  /\ priceCache' = [priceCache EXCEPT
                      ![qloc[p].seatClass] =
                        [present |-> TRUE,
                         val |-> StringifyNumber(qloc[p].result.finalPrice),
                         avail |-> qloc[p].avail]]
  /\ fdata' = [fdata EXCEPT !.currentPrice = qloc[p].result.finalPrice]
  /\ quote' = [quote EXCEPT ![qloc[p].seatClass] =
                                 [qloc[p].result EXCEPT !.avail = qloc[p].avail]]
  /\ qpc' = [qpc EXCEPT ![p] = "idle"]
  /\ qloc' = [qloc EXCEPT ![p] = IdleQloc]
  /\ UNCHANGED <<mcall, qcalls>>

\* the 300 seconds of a cache entry are over
PriceCacheExpire ==
  /\ \E c \in PricedClasses :
       /\ priceCache[c].present
       /\ priceCache' = [priceCache EXCEPT ![c] = NoEntry]
  /\ UNCHANGED <<mcall, fdata, qpc, qloc, quote, qcalls>>

PricingInit ==
  /\ mcall = NoCall
  /\ priceCache = [c \in Classes |-> NoEntry]
  /\ fdata = DefaultData
  /\ qpc = [p \in Procs |-> "idle"]
  /\ qloc = [p \in Procs |-> IdleQloc]
  /\ quote = [c \in Classes |-> NoQuote]
  /\ qcalls = 0

TimeMultiplierCall ==
  \E m \in Minutes :
    mcall' = [fn |-> "time", arg |-> <<m>>, out |-> calculateTimeMultiplier(m)]

DemandMultiplierCall ==
  \E c \in Counts, u \in Counts, seatClass \in {"economy", "business"} :
    /\ u.economy <= c.economy /\ u.business <= c.business
    /\ LET capacity == WithTotal(c)
           avail == WithTotal([economy |-> c.economy - u.economy,
                               business |-> c.business - u.business,
                               first |-> 0])
       IN  mcall' = [fn |-> "demand", arg |-> <<capacity, avail, seatClass>>,
                     out |-> calculateDemandMultiplier(capacity, avail, seatClass)]

RouteMultiplierCall ==
  \E found \in BOOLEAN, popularity \in Popularities, failed \in BOOLEAN :
    LET route == IF found THEN [NoRoute EXCEPT !.found = TRUE, !.popularity = popularity]
                          ELSE NoRoute
    IN  mcall' = [fn |-> "route", arg |-> <<route, failed>>,
                  out |-> calculateRouteMultiplier(route, failed)]

DayMultiplierCall ==
  \E dayOfWeek \in 0..6 :
    mcall' = [fn |-> "day", arg |-> <<dayOfWeek>>, out |-> calculateDayMultiplier(dayOfWeek)]

SeasonalMultiplierCall ==
  \E found \in BOOLEAN, list \in SeasonalLists, failed \in BOOLEAN, today \in Dates :
    LET route == IF found THEN [NoRoute EXCEPT !.found = TRUE, !.seasonalMultipliers = list]
                          ELSE NoRoute
    IN  mcall' = [fn |-> "seasonal", arg |-> <<route, failed, today>>,
                  out |-> calculateSeasonalMultiplier(route, failed, today)]

\* ------------------------------------------------------------ specification
Init ==
  /\ redis = [x \in Seats |-> NoKey]
  /\ seats = [x \in Seats |-> [class |-> SeatClass(x), isAvailable |-> TRUE]]
  /\ availability = updateAvailability(seats)
  /\ now = 0
  /\ pc = [p \in Procs |-> "idle"]
  /\ loc = [p \in Procs |-> IdleLoc]
  /\ ret = [p \in Procs |-> NoRet]
  /\ calls = 0
  /\ booked = {}
  /\ before = Snapshot
  /\ flight = [status |-> "scheduled",
               availableSeats |-> [i \in 1..NumSeats |-> i],
               bookedSeats |-> <<>>]
  /\ bookings = <<>>
  /\ bpc = [p \in Procs |-> "idle"]
  /\ bloc = [p \in Procs |-> IdleBloc]
  /\ reply = [p \in Procs |-> NoReply]
  /\ flightWriter = 0
  /\ bcalls = 0
  /\ hoursLeft = 25
  /\ PricingInit

\* one step of one handler of the seat blocking service, or of the clock
Step ==
  \/ \E p \in Procs : blockSeat(p)
  \/ \E p \in Procs : blockSeatExisting(p)
  \/ \E p \in Procs : updateSeatStatusSet(p)
  \/ \E p \in Procs : updateSeatStatusFind(p)
  \/ \E p \in Procs : updateSeatStatusSave(p)
  \/ \E p \in Procs : releaseSeat(p)
  \/ \E p \in Procs : releaseSeatDel(p)
  \/ \E p \in Procs : extendSeatBlock(p)
  \/ \E p \in Procs : extendSeatBlockExpire(p)
  \/ \E p \in Procs : extendSeatBlockSet(p)
  \/ \E p \in Procs : blockMultipleSeats(p)
  \/ \E p \in Procs : blockMultipleSeatsBlock(p)
  \/ \E p \in Procs : blockMultipleSeatsRelease(p)
  \/ \E p \in Procs : cleanupExpiredBlocks(p)
  \/ \E p \in Procs : cleanupExpiredBlocksTtl(p)
  \/ Tick

\* Concurrent handlers: the steps of different calls interleave freely.
Next ==
  \/ \E p \in Procs : blockSeat(p) /\ UNCHANGED <<before, booked, bvars, pvars>>
  \/ \E p \in Procs : blockSeatExisting(p) /\ UNCHANGED <<before, booked, bvars, pvars>>
  \/ \E p \in Procs : updateSeatStatusSet(p) /\ UNCHANGED <<before, booked, bvars, pvars>>
  \/ \E p \in Procs : updateSeatStatusFind(p) /\ UNCHANGED <<before, booked, bvars, pvars>>
  \/ \E p \in Procs : updateSeatStatusSave(p) /\ UNCHANGED <<before, booked, bvars, pvars>>
  \/ \E p \in Procs : releaseSeat(p) /\ UNCHANGED <<before, booked, bvars, pvars>>
  \/ \E p \in Procs : releaseSeatDel(p) /\ UNCHANGED <<before, booked, bvars, pvars>>
  \/ \E p \in Procs : extendSeatBlock(p) /\ UNCHANGED <<before, booked, bvars, pvars>>
  \/ \E p \in Procs : extendSeatBlockExpire(p) /\ UNCHANGED <<before, booked, bvars, pvars>>
  \/ \E p \in Procs : extendSeatBlockSet(p) /\ UNCHANGED <<before, booked, bvars, pvars>>
  \/ \E p \in Procs : blockMultipleSeats(p) /\ UNCHANGED <<before, booked, bvars, pvars>>
  \/ \E p \in Procs : blockMultipleSeatsBlock(p) /\ UNCHANGED <<before, booked, bvars, pvars>>
  \/ \E p \in Procs : blockMultipleSeatsRelease(p) /\ UNCHANGED <<before, booked, bvars, pvars>>
  \/ \E p \in Procs : cleanupExpiredBlocks(p) /\ UNCHANGED <<before, booked, bvars, pvars>>
  \/ \E p \in Procs : cleanupExpiredBlocksTtl(p) /\ UNCHANGED <<before, booked, bvars, pvars>>
  \/ Tick /\ UNCHANGED <<before, booked, bvars, pvars>>

Spec == Init /\ [][Next]_vars

\* One call at a time: a call is issued only when no other is running, and
\* time passes only between calls.  before records the lock store and the
\* seat flags at the moment a blockMultipleSeats call is issued.
NextSeq ==
  /\ Step
  /\ \A p \in Procs : pc[p] # "idle" => \A q \in Procs \ {p} : pc'[q] = "idle"
  /\ now' # now => \A p \in Procs : pc[p] = "idle"
  /\ before' = IF \E p \in Procs : pc[p] = "idle" /\ pc'[p] = "bm_block"
                 THEN Snapshot
                 ELSE before
  /\ UNCHANGED <<booked, bvars, pvars>>

SpecSeq == Init /\ [][NextSeq]_vars

\* The service with its retry wrappers, one call at a time.
RetryStep ==
  \/ \E p \in Procs : retryBlockSeat(p)
  \/ \E p \in Procs : retryBlockSeatAttempt(p)
  \/ \E p \in Procs : retryReleaseSeat(p)
  \/ \E p \in Procs : retryReleaseSeatAttempt(p)

NextRetry ==
  /\ Step \/ RetryStep
  /\ \A p \in Procs : pc[p] # "idle" => \A q \in Procs \ {p} : pc'[q] = "idle"
  /\ now' # now => \A p \in Procs : pc[p] = "idle"
  /\ UNCHANGED <<before, booked, bvars, pvars>>

SpecRetry == Init /\ [][NextRetry]_vars

\* A flight one of whose seats a booking has taken: the seat is marked
\* unavailable and has no lock.  One call at a time.
InitBooked ==
  /\ booked \in {{x} : x \in Seats}
  /\ redis = [x \in Seats |-> NoKey]
  /\ seats = [x \in Seats |-> [class |-> SeatClass(x), isAvailable |-> x \notin booked]]
  /\ availability = updateAvailability(seats)
  /\ now = 0
  /\ pc = [p \in Procs |-> "idle"]
  /\ loc = [p \in Procs |-> IdleLoc]
  /\ ret = [p \in Procs |-> NoRet]
  /\ calls = 0
  /\ before = Snapshot
  /\ flight = [status |-> "scheduled",
               availableSeats |-> [i \in 1..NumSeats |-> i],
               bookedSeats |-> <<>>]
  /\ bookings = <<>>
  /\ bpc = [p \in Procs |-> "idle"]
  /\ bloc = [p \in Procs |-> IdleBloc]
  /\ reply = [p \in Procs |-> NoReply]
  /\ flightWriter = 0
  /\ bcalls = 0
  /\ hoursLeft = 25
  /\ PricingInit

SpecBooked == InitBooked /\ [][NextSeq]_vars

\* The booking routes alone: requests interleave freely at every await.
NextBooking ==
  \/ \E p \in Procs : createBooking(p) /\ UNCHANGED <<pvars, hvars, before, hoursLeft>>
  \/ \E p \in Procs : createBookingExisting(p) /\ UNCHANGED <<pvars, hvars, before, hoursLeft>>
  \/ \E p \in Procs : createBookingSave(p) /\ UNCHANGED <<pvars, hvars, before, hoursLeft>>
  \/ \E p \in Procs : createBookingUpdate(p) /\ UNCHANGED <<pvars, hvars, before, hoursLeft>>
  \/ \E p \in Procs : createBookingCommit(p) /\ UNCHANGED <<pvars, hvars, before, hoursLeft>>
  \/ \E p \in Procs : createBookingPopulate(p) /\ UNCHANGED <<pvars, hvars, before, hoursLeft>>
  \/ \E p \in Procs : cancelBooking(p) /\ UNCHANGED <<pvars, hvars, before, hoursLeft>>
  \/ \E p \in Procs : cancelBookingStatus(p) /\ UNCHANGED <<pvars, hvars, before, hoursLeft>>
  \/ \E p \in Procs : cancelBookingFlight(p) /\ UNCHANGED <<pvars, hvars, before, hoursLeft>>
  \/ \E p \in Procs : cancelBookingCommit(p) /\ UNCHANGED <<pvars, hvars, before, hoursLeft>>
  \/ \E p \in Procs : checkIn(p) /\ UNCHANGED <<pvars, hvars, before, hoursLeft>>
  \/ \E p \in Procs : checkInUpdate(p) /\ UNCHANGED <<pvars, hvars, before, hoursLeft>>
  \/ Elapse /\ UNCHANGED <<pvars, hvars, before>>

SpecBooking == Init /\ [][NextBooking]_vars

\* ================================================================ claims
\* the step in which handler p's blockSeat (its own, or one of its
\* blockMultipleSeats loop) gets the reply of SET NX: the steps blockSeat(p)
\* and blockMultipleSeatsBlock(p), told by where p was and where it is now
BlockSeatReply(p) ==
  /\ pc[p] \in {"idle", "bm_block"}
  /\ pc'[p] \in {"uss_set", "bs_existing"}

\* the step in which handler p returns from the call it was running
Returns(p) == pc[p] # "idle" /\ pc'[p] = "idle"

\* C1: of the blockSeat calls on a seat, only one issued while the seat has no
\* lock acquires it: a SET NX is answered OK only when the key is absent, and a
\* call that finds the key leaves the lock as it is, goes on to report
\* 'Seat is already blocked' and returns success: false.
C1_AtMostOneBlockSucceeds ==
  [][\A p \in Procs :
       /\ BlockSeatReply(p) =>
            LET x == loc'[p].seat
            IN  /\ loc'[p].reply = "OK" => ~redis[x].present
                /\ redis[x].present =>
                     /\ redis'[x] = redis[x]
                     /\ pc'[p] = "bs_existing"
                /\ pc'[p] = "uss_set" <=> loc'[p].reply = "OK"
       /\ (pc[p] = "bs_existing" /\ loc[p].op = "blockSeat" /\ Returns(p)) =>
            /\ ~ret'[p].success
            /\ ret'[p].error = "Seat is already blocked"
       /\ (Returns(p) /\ ret'[p].op = "blockSeat" /\ ret'[p].success) =>
            loc[p].reply = "OK"
    ]_vars

\* two blockSeat calls on one seat in flight, one answered OK, the other nil
C1_Witness ==
  \E p, q \in Procs :
    /\ loc[p].op = "blockSeat" /\ loc[q].op = "blockSeat"
    /\ loc[p].seat = loc[q].seat
    /\ loc[p].reply = "OK" /\ pc[p] = "uss_set"
    /\ loc[q].reply = "nil" /\ pc[q] = "bs_existing"

\* the seats a running blockMultipleSeats has attempted so far, in the order
\* it attempted them
Attempted(l) ==
  IF l.op # "blockMultipleSeats" THEN <<>>
  ELSE IF l.phase = "rollback" THEN l.seatNumbers
  ELSE SubSeq(l.seatNumbers, 1, IF l.seat = 0 THEN l.idx - 1 ELSE l.idx)

\* the lock of seat x as recorded in the store: its holder and its session
LockHolder(store, x) == store[x].val.userId

LockSession(store, x) == store[x].val.sessionId

\* C3 (as claimed): blockMultipleSeats is all-or-nothing.  When it returns
\* success every requested seat is locked for the caller; when it returns
\* failure no requested seat carries a lock of this attempt, and the lock and
\* the isAvailable flag of every requested seat are what they were when the
\* call was issued.  Checked with one call running at a time (SpecSeq), so
\* that nothing but the call itself can have changed the stores.
C3_AllOrNothing ==
  [][\A p \in Procs :
       (loc[p].op = "blockMultipleSeats" /\ Returns(p)) =>
         \A i \in DOMAIN loc[p].seatNumbers :
           LET x == loc[p].seatNumbers[i]
           IN  IF ret'[p].success
                 THEN redis'[x].present /\ LockHolder(redis', x) = loc[p].userId
                 ELSE /\ redis'[x].present = before.lock[x].present
                      /\ LockHolder(redis', x) = before.lock[x].userId
                      /\ LockSession(redis', x) = before.lock[x].sessionId
                      /\ seats'[x].isAvailable = before.isAvailable[x]
    ]_vars

\* C4 (as claimed): blockMultipleSeats attempts the seats in ascending seat
\* id, whatever the order of the list passed.
C4_CanonicalOrder ==
  \A p \in Procs :
    \A i, j \in DOMAIN Attempted(loc[p]) :
      i < j => Attempted(loc[p])[i] < Attempted(loc[p])[j]

\* C5 (as claimed): the DEL of releaseSeat never removes a lock whose recorded
\* holder or session differs from the caller's.
C5_ReleaseOnlyOwnLock ==
  [][\A p \in Procs :
       (pc[p] = "rel_del" /\ pc'[p] # "rel_del" /\ redis[loc[p].seat].present) =>
         /\ LockHolder(redis, loc[p].seat) = loc[p].userId
         /\ loc[p].sid # NullSid => LockSession(redis, loc[p].seat) = loc[p].sid
    ]_vars

\* a releaseSeat call by handler p is at its ownership checks in this step
ReleaseCall(p) ==
  /\ pc[p] = "idle"
  /\ pc'[p] \in {"idle", "rel_del"}
  /\ loc'[p].op = "releaseSeat" \/ ret'[p].op = "releaseSeat"

ReleaseArgs(p, x, u, s) ==
  ReleaseSeatGet(p, [IdleLoc EXCEPT !.op = "releaseSeat"], x, u, s)

Unauthorized == {"You do not own this seat block", "Invalid session ID"}

\* C6 (amended): releaseSeat goes on to delete the lock only when the holder
\* id of the call is the one the lock records and, if the call passes a
\* session id, that session id is the one the lock records; a call whose holder
\* does not match, or whose session id is passed and does not match, returns
\* an Unauthorized failure and leaves the lock store, the seat flags and the
\* counters unchanged.  A call that passes no session id is checked on the
\* holder alone.
C6_ReleaseNeedsOwner ==
  [][\A p \in Procs :
       ReleaseCall(p) =>
         \A x \in Seats, u \in Users, s \in {NullSid} \cup Sids :
           ReleaseArgs(p, x, u, s) =>
             /\ pc'[p] = "rel_del" =>
                  /\ redis[x].present
                  /\ LockHolder(redis, x) = u
                  /\ s # NullSid => LockSession(redis, x) = s
             /\ ( /\ redis[x].present
                  /\ \/ LockHolder(redis, x) # u
                     \/ s # NullSid /\ LockSession(redis, x) # s ) =>
                  /\ pc'[p] = "idle"
                  /\ ~ret'[p].success
                  /\ ret'[p].error \in Unauthorized
                  /\ UNCHANGED <<redis, seats, availability>>
    ]_vars

\* a call with the wrong session was refused while a call with the right one
\* has passed the checks
C6_Witness ==
  \E p, q \in Procs :
    /\ pc[p] = "rel_del" /\ loc[p].op = "releaseSeat" /\ loc[p].sid # NullSid
    /\ ret[q].op = "releaseSeat" /\ ret[q].error = "Invalid session ID"

\* C6 (as claimed): releaseSeat passes its checks only when both the holder id
\* and the session id of the call match the lock.
C6_ReleaseNeedsOwnerAndSession ==
  [][\A p \in Procs :
       (ReleaseCall(p) /\ pc'[p] = "rel_del") =>
         /\ LockHolder(redis, loc'[p].seat) = loc'[p].userId
         /\ LockSession(redis, loc'[p].seat) = loc'[p].sid
    ]_vars

\* C7 (as claimed): when extendSeatBlock has rewritten the lock, reading the
\* lock back (getSeatBlock) yields the holder id and the session id of the
\* caller, the ones the ownership checks of releaseSeat and extendSeatBlock
\* compare against.
C7_ExtendKeepsHolder ==
  [][\A p \in Procs :
       (pc[p] = "ext_set" /\ Returns(p)) =>
         LET existing == getSeatBlock(redis', loc[p].seat)
         IN  /\ existing.found
             /\ FieldUserId(existing.obj) = loc[p].userId
             /\ FieldSessionId(existing.obj) = loc[p].sid
    ]_vars

\* C8: a blockSeat issued on a seat that has no lock, whatever the seat's flag
\* says, gets the lock and returns success; an explicit release removes the
\* key, and so does the expiry of its TTL.
C8_FreeSeatIsAcquirable ==
  [][/\ \A p \in Procs :
          /\ (BlockSeatReply(p) /\ loc'[p].op = "blockSeat"
                /\ ~redis[loc'[p].seat].present) =>
               /\ pc'[p] = "uss_set"
               /\ redis'[loc'[p].seat].present
               /\ LockHolder(redis', loc'[p].seat) = loc'[p].userId
               /\ LockSession(redis', loc'[p].seat) = loc'[p].sid
          /\ (Returns(p) /\ loc[p].op = "blockSeat" /\ loc[p].reply = "OK") =>
               ret'[p].success
          /\ (pc[p] = "rel_del" /\ pc'[p] # "rel_del") =>
               ~redis'[loc[p].seat].present
     /\ now' # now =>
          \A x \in Seats : (redis[x].present /\ redis[x].ttl <= 1) => ~redis'[x].present
    ]_vars

\* a blockSeat has just won a seat whose flag still says held: an earlier
\* hold on it is gone
C8_Witness ==
  \E p \in Procs :
    /\ pc[p] = "uss_set" /\ loc[p].op = "blockSeat" /\ loc[p].reply = "OK"
    /\ ~seats[loc[p].seat].isAvailable
    /\ redis[loc[p].seat].present
    /\ LockSession(redis, loc[p].seat) = loc[p].sid

\* C9 (as claimed): when the sweep returns while no other handler is running,
\* every seat without a lock is marked available and the counters agree with
\* the flags.
C9_SweepRevertsMarker ==
  [][\A p \in Procs :
       ( /\ Returns(p) /\ ret'[p].op = "cleanupExpiredBlocks"
         /\ \A q \in Procs \ {p} : pc[q] = "idle" ) =>
           /\ \A x \in Seats : ~redis'[x].present => seats'[x].isAvailable
           /\ availability' = updateAvailability(seats')
    ]_vars

\* C10 (as claimed): once every handler has returned, each counter equals the
\* number of seats of its class whose flag is true, and the total the number
\* of available seats.
C10_CountersMatchFlags ==
  (\A p \in Procs : pc[p] = "idle") => availability = updateAvailability(seats)

\* C2 (as claimed): at most one booking that is not cancelled references a
\* seat, and the seat appears at most once in the flight's bookedSeats.
C2_NoSeatSoldTwice ==
  \A x \in Seats :
    /\ Cardinality({i \in DOMAIN bookings :
                      bookings[i].seatNumber = x /\ bookings[i].status # "cancelled"}) <= 1
    /\ Cardinality({i \in DOMAIN flight.bookedSeats : flight.bookedSeats[i] = x}) <= 1

\* C11 (as claimed): a blockSeat on a booked seat that has no lock does not
\* get the lock, and a booked seat is never marked available.
C11_BookedSeatNotBlocked ==
  [][/\ \A p \in Procs :
          (BlockSeatReply(p) /\ loc'[p].seat \in booked) => loc'[p].reply # "OK"
     /\ \A x \in booked : ~seats'[x].isAvailable
    ]_vars

Contention == {"Seat is already blocked", "No active block found for this seat",
               "You do not own this seat block", "Invalid session ID"}

\* C12 (as claimed): a retry wrapper whose wrapped call fails on contention (or
\* on an ownership mismatch or a missing lock) returns after one attempt, with
\* that failure as its result.
C12_NoRetryOnContention ==
  [][\A p \in Procs :
       (Returns(p) /\ loc[p].op \in {"retryBlockSeat", "retryReleaseSeat"}
          /\ ~ret'[p].success) =>
         /\ loc[p].attempt = 1
         /\ ret'[p].error \in Contention
    ]_vars

\* C13 (as claimed): the failure a blockSeat returns for a locked seat carries
\* the holder id and the expiry the lock records, and the step changes neither
\* the lock store nor the seat flags.
C13_ConflictReportsHolder ==
  [][\A p \in Procs :
       (pc[p] = "bs_existing" /\ pc'[p] # "bs_existing"
          /\ redis[loc[p].seat].present) =>
         LET r == BlockConflict(loc[p], getSeatBlock(redis, loc[p].seat))
         IN  /\ r.blockedBy = LockHolder(redis, loc[p].seat)
             /\ r.expiresAt = redis[loc[p].seat].val.expiresAt
             /\ UNCHANGED <<redis, seats, availability>>
    ]_vars

\* C14 (as claimed): a releaseSeat on a seat that has no lock reports success
\* and changes neither the lock store nor the inventory.
C14_ReleaseMissingLockSucceeds ==
  [][\A p \in Procs :
       (ReleaseCall(p) /\ pc'[p] = "idle" /\ ~redis[ret'[p].seat].present) =>
         /\ ret'[p].success
         /\ UNCHANGED <<redis, seats, availability>>
    ]_vars

\* The express booking routes over a booking that was made before: the
\* booking is pending and has taken its seat.
InitExpress ==
  /\ booked \in {{x} : x \in Seats}
  /\ redis = [x \in Seats |-> NoKey]
  /\ seats = [x \in Seats |-> [class |-> SeatClass(x), isAvailable |-> x \notin booked]]
  /\ availability = updateAvailability(seats)
  /\ now = 0
  /\ pc = [p \in Procs |-> "idle"]
  /\ loc = [p \in Procs |-> IdleLoc]
  /\ ret = [p \in Procs |-> NoRet]
  /\ calls = 0
  /\ before = Snapshot
  /\ flight = [status |-> "scheduled",
               availableSeats |-> [i \in 1..NumSeats |-> i],
               bookedSeats |-> <<>>]
  /\ bookings \in {<<Booking(u, x, "pending")>> : u \in Users, x \in booked}
  /\ bpc = [p \in Procs |-> "idle"]
  /\ bloc = [p \in Procs |-> IdleBloc]
  /\ reply = [p \in Procs |-> NoReply]
  /\ flightWriter = 0
  /\ bcalls = 0
  /\ hoursLeft = 25
  /\ PricingInit

\* what no express route touches
evars == <<redis, now, pc, loc, ret, calls, before, flight, flightWriter, pvars>>

NextExpress ==
  \/ \E p \in Procs : processPayment(p) /\ UNCHANGED <<evars, hoursLeft>>
  \/ \E p \in Procs : processPaymentResult(p) /\ UNCHANGED <<evars, hoursLeft>>
  \/ \E p \in Procs : processPaymentSave(p) /\ UNCHANGED <<evars, hoursLeft>>
  \/ \E p \in Procs : adminUpdateStatus(p) /\ UNCHANGED <<evars, hoursLeft>>
  \/ \E p \in Procs : adminUpdateStatusSave(p) /\ UNCHANGED <<evars, hoursLeft>>
  \/ \E p \in Procs : userCancel(p) /\ UNCHANGED <<evars, hoursLeft>>
  \/ \E p \in Procs : cancelBookingService(p) /\ UNCHANGED <<evars, hoursLeft>>
  \/ Elapse /\ UNCHANGED <<pvars, hvars, before>>

SpecExpress == InitExpress /\ [][NextExpress]_vars

\* The multiplier functions of the pricing service, each called on every
\* input of the model.
nonpricing == <<hvars, before, bvars>>

NextMultipliers ==
  \/ TimeMultiplierCall /\ UNCHANGED <<nonpricing, priceCache, fdata, qpc, qloc, quote, qcalls>>
  \/ DemandMultiplierCall /\ UNCHANGED <<nonpricing, priceCache, fdata, qpc, qloc, quote, qcalls>>
  \/ RouteMultiplierCall /\ UNCHANGED <<nonpricing, priceCache, fdata, qpc, qloc, quote, qcalls>>
  \/ DayMultiplierCall /\ UNCHANGED <<nonpricing, priceCache, fdata, qpc, qloc, quote, qcalls>>
  \/ SeasonalMultiplierCall /\ UNCHANGED <<nonpricing, priceCache, fdata, qpc, qloc, quote, qcalls>>

SpecMultipliers == Init /\ [][NextMultipliers]_vars

\* calculateDynamicPrice alone, on a flight whose data, occupancy and clock
\* do not change: every call has the same inputs.
BasePrices == {7, 20}

Routes ==
  {NoRoute,
   [found |-> TRUE, popularity |-> 21,
    seasonalMultipliers |-> <<Seasonal(<<12, 1>>, <<1, 15>>, 15)>>],
   [found |-> TRUE, popularity |-> 5, seasonalMultipliers |-> <<>>]}

InitQuote ==
  /\ redis = [x \in Seats |-> NoKey]
  /\ booked \in SUBSET Seats
  /\ seats = [x \in Seats |-> [class |-> SeatClass(x), isAvailable |-> x \notin booked]]
  /\ availability = updateAvailability(seats)
  /\ now = 0
  /\ pc = [p \in Procs |-> "idle"]
  /\ loc = [p \in Procs |-> IdleLoc]
  /\ ret = [p \in Procs |-> NoRet]
  /\ calls = 0
  /\ before = Snapshot
  /\ flight = [status |-> "scheduled",
               availableSeats |-> [i \in 1..NumSeats |-> i],
               bookedSeats |-> <<>>]
  /\ bookings = <<>>
  /\ bpc = [p \in Procs |-> "idle"]
  /\ bloc = [p \in Procs |-> IdleBloc]
  /\ reply = [p \in Procs |-> NoReply]
  /\ flightWriter = 0
  /\ bcalls = 0
  /\ hoursLeft = 25
  /\ mcall = NoCall
  /\ priceCache = [c \in Classes |-> NoEntry]
  /\ fdata \in {FlightData(b, m, d, r, t, up) :
                  b \in BasePrices, m \in {-1, 1000, 20000}, d \in {2, 6},
                  r \in Routes, t \in {<<1, 1>>, <<6, 30>>}, up \in BOOLEAN}
  /\ qpc = [p \in Procs |-> "idle"]
  /\ qloc = [p \in Procs |-> IdleQloc]
  /\ quote = [c \in Classes |-> NoQuote]
  /\ qcalls = 0

NextQuote ==
  \/ \E p \in Procs : calculateDynamicPrice(p) /\ UNCHANGED nonpricing
  \/ \E p \in Procs : calculateDynamicPriceSet(p) /\ UNCHANGED nonpricing
  \/ PriceCacheExpire /\ UNCHANGED nonpricing

SpecQuote == InitQuote /\ [][NextQuote]_vars

\* calculateDynamicPrice on a flight whose seats are blocked and released
\* between the calls; one call at a time.
HoldTurn ==
  /\ \A p \in Procs : pc[p] # "idle" => \A q \in Procs \ {p} : pc'[q] = "idle"
  /\ \A p \in Procs : qpc[p] = "idle"
  /\ UNCHANGED <<before, booked, bvars, pvars>>

QuoteTurn ==
  /\ \A p \in Procs : pc[p] = "idle"
  /\ \A p \in Procs : qpc[p] # "idle" => \A q \in Procs \ {p} : qpc'[q] = "idle"
  /\ UNCHANGED nonpricing

NextPricing ==
  \/ \E p \in Procs : blockSeat(p) /\ HoldTurn
  \/ \E p \in Procs : blockSeatExisting(p) /\ HoldTurn
  \/ \E p \in Procs : updateSeatStatusSet(p) /\ HoldTurn
  \/ \E p \in Procs : updateSeatStatusFind(p) /\ HoldTurn
  \/ \E p \in Procs : updateSeatStatusSave(p) /\ HoldTurn
  \/ \E p \in Procs : releaseSeat(p) /\ HoldTurn
  \/ \E p \in Procs : releaseSeatDel(p) /\ HoldTurn
  \/ \E p \in Procs : calculateDynamicPrice(p) /\ QuoteTurn
  \/ \E p \in Procs : calculateDynamicPriceSet(p) /\ QuoteTurn
  \/ PriceCacheExpire /\ QuoteTurn

SpecPricing == Init /\ [][NextPricing]_vars

\* C15 (as claimed): a booking is created only while the caller holds an
\* unexpired lock on the seat.
C15_BookingNeedsHold ==
  [][\A p \in Procs :
       (bpc[p] = "b_commit" /\ bpc'[p] # "b_commit") =>
         /\ redis[bloc[p].seatNumber].present
         /\ LockHolder(redis, bloc[p].seatNumber) = bloc[p].userId
    ]_vars

\* C16 (as claimed): a create-booking request that started its transaction
\* and ends with an error reply has left no booking record and has not moved
\* the seat; one that ends with success has left both.
C16_CreateIsAtomic ==
  [][\A p \in Procs :
       (bpc[p] \in {"b_save", "b_update", "b_commit", "b_populate"}
          /\ bpc'[p] = "idle") =>
         IF reply'[p].code = 201
           THEN /\ bloc[p].bookingId \in DOMAIN bookings'
                /\ includes(flight'.bookedSeats, bloc[p].seatNumber)
           ELSE bloc[p].bookingId = 0
    ]_vars

\* a cancel request passes the handler's checks and starts its transaction
CancelAccepted(p) == bpc[p] = "idle" /\ bpc'[p] = "x_booking"

\* C18 (as claimed): a cancel request is accepted only while the booking is
\* pending or confirmed; a cancel never changes a booking in another status.
C18_CancelOnlyPendingOrConfirmed ==
  [][\A p \in Procs :
       /\ CancelAccepted(p) => bloc'[p].status \in {"pending", "confirmed"}
       /\ (bpc[p] = "x_commit" /\ bpc'[p] = "idle") =>
            bookings[bloc[p].bookingId].status \in {"pending", "confirmed"}
    ]_vars

\* C19 (as claimed): a non-admin's cancel is accepted only when the departure
\* is strictly more than 2 hours away, an admin's at any time.
C19_CancelCutoff ==
  [][\A p \in Procs :
       /\ CancelAccepted(p) => (bloc'[p].role = "admin" \/ hoursLeft > 2)
       /\ (bpc[p] = "idle" /\ bcalls' # bcalls
             /\ reply'[p] = Send(400, "Cannot cancel booking within 2 hours of departure")) =>
            hoursLeft <= 2
    ]_vars

\* C17 (as claimed): a booking's status only moves along pending -> confirmed
\* -> checked-in -> completed or pending|confirmed -> cancelled, and never
\* leaves cancelled or completed.
C17_StatusFollowsStateMachine ==
  [][\A i \in DOMAIN bookings :
       bookings'[i].status # bookings[i].status =>
         <<bookings[i].status, bookings'[i].status>> \in
           {<<"pending", "confirmed">>, <<"confirmed", "checked-in">>,
            <<"checked-in", "completed">>,
            <<"pending", "cancelled">>, <<"confirmed", "cancelled">>}
    ]_vars

\* C20 (as claimed): in the step in which a booking's status becomes
\* cancelled, its seat leaves the booked set and is marked available.
C20_CancelReleasesSeat ==
  [][\A i \in DOMAIN bookings :
       (bookings[i].status # "cancelled" /\ bookings'[i].status = "cancelled") =>
         /\ bookings[i].seatNumber \notin booked'
         /\ seats'[bookings[i].seatNumber].isAvailable
         /\ availability' = updateAvailability(seats')
    ]_vars

\* C21 (as claimed): a cancel of a booking that is already cancelled is
\* answered with success and changes neither the bookings nor the flight's
\* seat arrays.
C21_CancelIsIdempotent ==
  [][\A p \in Procs :
       (bpc[p] = "idle" /\ bcalls' # bcalls
          /\ reply'[p].message = "Booking is already cancelled") =>
         /\ reply'[p].code = 200
         /\ UNCHANGED <<bookings, flight>>
    ]_vars

\* a check-in request passes the handler's checks
CheckInAccepted(p) == bpc[p] = "idle" /\ bpc'[p] = "k_update"

C27_TimeStaircase ==
  mcall.fn = "time" =>
    LET m == mcall.arg[1]
    IN  mcall.out = IF m < 0 THEN 10
                    ELSE IF m <= 6 * 60 THEN 18
                    ELSE IF m <= 24 * 60 THEN 15
                    ELSE IF m <= 72 * 60 THEN 13
                    ELSE IF m <= 168 * 60 THEN 11
                    ELSE 10

\* C28 (as claimed): the demand multiplier is the staircase value of the
\* occupancy of the class, 100 * (seats not available) / capacity.
C28_DemandStaircase ==
  (mcall.fn = "demand" /\ mcall.arg[1][mcall.arg[3]] > 0) =>
    LET c == mcall.arg[1][mcall.arg[3]]
        u == c - mcall.arg[2][mcall.arg[3]]
    IN  mcall.out = IF 100 * u >= 90 * c THEN 20
                    ELSE IF 100 * u >= 80 * c THEN 17
                    ELSE IF 100 * u >= 70 * c THEN 14
                    ELSE IF 100 * u >= 60 * c THEN 12
                    ELSE IF 100 * u >= 50 * c THEN 11
                    ELSE 10

\* C29 (as claimed): the seasonal multiplier is that of the first configured
\* range that contains the date, and 1.0 when none does; a range contains
\* both its ends, and a range that wraps the year has the days from its start
\* to 12-31 and from 01-01 to its end.
C29_SeasonalFirstMatch ==
  (mcall.fn = "seasonal" /\ mcall.arg[1].found /\ ~mcall.arg[2]) =>
    LET list == mcall.arg[1].seasonalMultipliers
        current == ParseMMDD(mcall.arg[3])
        Has(r) == LET start == ParseMMDD(r.startDate)
                      end == ParseMMDD(r.endDate)
                  IN  IF start > end
                        THEN current >= start \/ current <= end
                        ELSE start <= current /\ current <= end
        hits == {i \in DOMAIN list : Has(list[i])}
    IN  mcall.out = IF hits = {} THEN 10
                    ELSE list[CHOOSE i \in hits : \A j \in hits : i <= j].multiplier

\* C30: the route multiplier is min(popularity, 2.0) for a route that is found
\* and has a popularity, 1.0 otherwise, and never more than 2.0.
C30_RouteMultiplierCapped ==
  mcall.fn = "route" =>
    LET route == mcall.arg[1]
        failed == mcall.arg[2]
    IN  /\ mcall.out <= 20
        /\ mcall.out = IF failed \/ ~route.found \/ route.popularity = 0
                         THEN 10
                       ELSE IF route.popularity < 20 THEN route.popularity
                       ELSE 20

\* the multiplier of a route more popular than the cap
C30_Witness ==
  /\ mcall.fn = "route" /\ mcall.arg[1].found /\ ~mcall.arg[2]
  /\ mcall.arg[1].popularity = 50 /\ mcall.out = 20

\* C23 (as claimed): with the flight's data, the clock and the occupancy
\* unchanged, a call returns the same value as the call before it for the
\* same class: the same shape and the same finalPrice.
C23_PriceIsIdempotent ==
  [][\A c \in PricedClasses :
       (quote'[c] # quote[c] /\ quote[c] # NoQuote) =>
         /\ quote'[c].shape = quote[c].shape
         /\ quote'[c].finalPrice = quote[c].finalPrice
    ]_vars

\* the call returns the price it computed
ReturnsComputed(p) == qpc[p] = "q_set" /\ qpc'[p] = "idle"

ServedFromCache(c) ==
  /\ qcalls' # qcalls
  /\ qpc' = qpc
  /\ quote'[c] # quote[c]

\* C24 (as claimed): a call is never answered from a cache entry that was
\* computed before the flight's seat counts changed.
C24_NoStalePriceServed ==
  [][\A c \in PricedClasses :
       ServedFromCache(c) => priceCache[c].avail = availability
    ]_vars

\* the seats of the class that are not available, in percent of its capacity
OccupancyPercent(avail, c) == ((Capacity[c] - avail[c]) * 100) \div Capacity[c]

\* C25 (as claimed): when the occupancy of a class rose from below 50% to 90%
\* or more between two calls for it, the second call returns a strictly
\* greater finalPrice than the first.
C25_PriceRisesWithDemand ==
  [][\A c \in PricedClasses :
       (/\ quote'[c] # quote[c]
        /\ quote[c] # NoQuote
        /\ OccupancyPercent(quote[c].avail, c) < 50
        /\ OccupancyPercent(quote'[c].avail, c) >= 90) =>
         quote'[c].finalPrice > quote[c].finalPrice
    ]_vars

\* ================================================================ holds under concurrency
\* blockSeat and releaseSeat alone, their steps interleaving freely and no
\* lock expiring.
NextBlockRelease ==
  \/ \E p \in Procs : blockSeat(p) /\ UNCHANGED <<before, booked, bvars, pvars>>
  \/ \E p \in Procs : blockSeatExisting(p) /\ UNCHANGED <<before, booked, bvars, pvars>>
  \/ \E p \in Procs : updateSeatStatusSet(p) /\ UNCHANGED <<before, booked, bvars, pvars>>
  \/ \E p \in Procs : updateSeatStatusFind(p) /\ UNCHANGED <<before, booked, bvars, pvars>>
  \/ \E p \in Procs : updateSeatStatusSave(p) /\ UNCHANGED <<before, booked, bvars, pvars>>
  \/ \E p \in Procs : releaseSeat(p) /\ UNCHANGED <<before, booked, bvars, pvars>>
  \/ \E p \in Procs : releaseSeatDel(p) /\ UNCHANGED <<before, booked, bvars, pvars>>

SpecBlockRelease == Init /\ [][NextBlockRelease]_vars

\* C31 (as claimed): once every blockSeat and releaseSeat call has returned, a
\* seat whose lock exists, held by the caller of a blockSeat that returned
\* success, is marked unavailable.  (The other half of the claim, that a seat
\* without a lock is marked available, fails as well: a releaseSeat that runs
\* between the SET NX of a blockSeat and its flag write.)
C31_FlagFollowsLock ==
  (\A p \in Procs : pc[p] = "idle") =>
    \A x \in Seats : redis[x].present => ~seats[x].isAvailable

\* extendSeatBlock against expiry and blockSeat.  Seat 1 starts held: a
\* blockSeat of u1 that ran at time 0 with a holdTime of 1 to MaxRemaining
\* seconds.
MaxRemaining == 2

InitExtend ==
  /\ \E r \in 1..MaxRemaining :
       redis = [x \in Seats |->
                  IF x = 1 THEN Entry(JSONstringify(BlockData("u1", 1, 0, r)), r)
                  ELSE NoKey]
  /\ seats = [x \in Seats |-> [class |-> SeatClass(x), isAvailable |-> x # 1]]
  /\ availability = updateAvailability(seats)
  /\ now = 0
  /\ pc = [p \in Procs |-> "idle"]
  /\ loc = [p \in Procs |-> IdleLoc]
  /\ ret = [p \in Procs |-> NoRet]
  /\ calls = 0
  /\ booked = {}
  /\ before = Snapshot
  /\ flight = [status |-> "scheduled",
               availableSeats |-> [i \in 1..NumSeats |-> i],
               bookedSeats |-> <<>>]
  /\ bookings = <<>>
  /\ bpc = [p \in Procs |-> "idle"]
  /\ bloc = [p \in Procs |-> IdleBloc]
  /\ reply = [p \in Procs |-> NoReply]
  /\ flightWriter = 0
  /\ bcalls = 0
  /\ hoursLeft = 25
  /\ PricingInit

NextExtend ==
  \/ \E p \in Procs : extendSeatBlock(p) /\ UNCHANGED <<before, booked, bvars, pvars>>
  \/ \E p \in Procs : extendSeatBlockExpire(p) /\ UNCHANGED <<before, booked, bvars, pvars>>
  \/ \E p \in Procs : extendSeatBlockSet(p) /\ UNCHANGED <<before, booked, bvars, pvars>>
  \/ \E p \in Procs : blockSeat(p) /\ UNCHANGED <<before, booked, bvars, pvars>>
  \/ \E p \in Procs : blockSeatExisting(p) /\ UNCHANGED <<before, booked, bvars, pvars>>
  \/ \E p \in Procs : updateSeatStatusSet(p) /\ UNCHANGED <<before, booked, bvars, pvars>>
  \/ \E p \in Procs : updateSeatStatusFind(p) /\ UNCHANGED <<before, booked, bvars, pvars>>
  \/ \E p \in Procs : updateSeatStatusSave(p) /\ UNCHANGED <<before, booked, bvars, pvars>>
  \/ Tick /\ UNCHANGED <<before, booked, bvars, pvars>>

SpecExtend == InitExtend /\ [][NextExtend]_vars

\* C32 (as claimed): the writes of extendSeatBlock (EXPIRE, then SET) change
\* the lock store only while the key exists and records the caller's holder id
\* and session id: an extension whose lock expired after the ownership check
\* creates no lock and overwrites no lock another caller has taken since.
C32_ExtendWritesOwnLockOnly ==
  [][\A p \in Procs :
       (pc[p] \in {"ext_expire", "ext_set"} /\ pc'[p] # pc[p] /\ redis' # redis) =>
         /\ redis[loc[p].seat].present
         /\ LockHolder(redis, loc[p].seat) = loc[p].userId
         /\ LockSession(redis, loc[p].seat) = loc[p].sid
    ]_vars

\* C33 (as claimed): the writes of an extendSeatBlock that found its lock
\* never move the lock's expiry (the clock plus the key's remaining TTL) to an
\* earlier time.
C33_ExtendNeverShortens ==
  [][\A p \in Procs :
       ( /\ pc[p] \in {"ext_expire", "ext_set"} /\ pc'[p] # pc[p]
         /\ redis[loc[p].seat].present
         /\ LockSession(redis, loc[p].seat) = loc[p].sid ) =>
           now' + redis'[loc[p].seat].ttl >= now + redis[loc[p].seat].ttl
    ]_vars

\* C34 (as claimed): when blockMultipleSeats returns success, the session id
\* it returns passes, with the caller's holder id, the ownership checks of
\* releaseSeat and of extendSeatBlock on the live lock of every seat of the
\* list.
C34_MultiSessionIdentifiesHold ==
  [][\A p \in Procs :
       (Returns(p) /\ ret'[p].op = "blockMultipleSeats" /\ ret'[p].success) =>
         \A i \in DOMAIN loc[p].seatNumbers :
           LET x == loc[p].seatNumbers[i]
           IN  redis'[x].present =>
                 /\ ReleaseCheck(getSeatBlock(redis', x), loc[p].userId,
                                 loc[p].bmSid) = "ok"
                 /\ ExtendCheck(getSeatBlock(redis', x), loc[p].userId,
                                loc[p].bmSid) = "ok"
    ]_vars

\* ================================================================ bookings under concurrency
\* C35 (as claimed): in every state the create and cancel requests reach, the
\* flight's availableSeats and bookedSeats have no duplicates, share no seat
\* and together hold exactly the flight's seats.
C35_SeatArraysPartition ==
  /\ \A i, j \in DOMAIN flight.availableSeats :
       flight.availableSeats[i] = flight.availableSeats[j] => i = j
  /\ \A i, j \in DOMAIN flight.bookedSeats :
       flight.bookedSeats[i] = flight.bookedSeats[j] => i = j
  /\ \A x \in Seats :
       includes(flight.availableSeats, x) # includes(flight.bookedSeats, x)

\* C38 (as claimed): no user has two bookings with status confirmed or
\* checked-in on the flight, be they for different seats.
C38_OneActiveBookingPerUser ==
  \A i, j \in DOMAIN bookings :
    ( /\ bookings[i].user = bookings[j].user
      /\ bookings[i].seatNumber # bookings[j].seatNumber
      /\ bookings[i].status \in {"confirmed", "checked-in"}
      /\ bookings[j].status \in {"confirmed", "checked-in"} ) => FALSE

\* ================================================================ payment
\* The payment and the cancel route of the express application alone, over a
\* pending booking, their requests interleaving at every await.
NextPayCancel ==
  \/ \E p \in Procs : processPayment(p) /\ UNCHANGED <<evars, hoursLeft>>
  \/ \E p \in Procs : processPaymentResult(p) /\ UNCHANGED <<evars, hoursLeft>>
  \/ \E p \in Procs : processPaymentSave(p) /\ UNCHANGED <<evars, hoursLeft>>
  \/ \E p \in Procs : userCancel(p) /\ UNCHANGED <<evars, hoursLeft>>
  \/ \E p \in Procs : cancelBookingService(p) /\ UNCHANGED <<evars, hoursLeft>>

SpecPayCancel == InitExpress /\ [][NextPayCancel]_vars

\* C39 (as claimed): the payment route goes on to confirm only a booking it
\* read as pending, after a successful payment; its save then sets status
\* confirmed and payment status completed together; a request it rejects (not
\* found or not pending, expired, payment failed) changes no booking.
C39_PaymentConfirms ==
  [][\A p \in Procs :
       /\ (bpc[p] # "pay_save" /\ bpc'[p] = "pay_save") =>
            /\ bpc[p] = "pay_process"
            /\ bloc'[p].status = "pending"
       /\ (bpc[p] = "pay_save" /\ bpc'[p] = "idle") =>
            /\ bookings'[bloc[p].bookingId].status = "confirmed"
            /\ bookings'[bloc[p].bookingId].paymentStatus = "completed"
       /\ (bpc[p] \in {"idle", "pay_process"} /\ bpc'[p] = "idle"
             /\ reply'[p].code \in {400, 404}) =>
            bookings' = bookings
    ]_vars

\* C36 (as claimed): of the payment requests on a booking, at most one gets to
\* call bookingService.processPayment: no two handlers have made the call for
\* the same booking.
C36_PaymentProcessedOnce ==
  \A p, q \in Procs :
    ( /\ bpc[p] \in {"pay_process", "pay_save"}
      /\ bpc[q] \in {"pay_process", "pay_save"}
      /\ bloc[p].bookingId = bloc[q].bookingId ) => p = q

\* C37 (as claimed): once a payment request and a cancel request on a pending
\* booking have both ended, the booking is not confirmed with its seat
\* released.
C37_NoConfirmedWithoutSeat ==
  (\A p \in Procs : bpc[p] = "idle") =>
    \A i \in DOMAIN bookings :
      bookings[i].status = "confirmed" => bookings[i].seatNumber \in booked

\* ================================================================ check-in
\* C40 (as claimed): Booking.canCheckIn agrees with the check-in route.  A
\* request the route accepts is for a booking on which canCheckIn returns true
\* (on an engine that parses the date), and when the route rejects a request
\* for the time to the departure, canCheckIn returns true on no booking.
C40_CanCheckInAgreesWithRoute ==
  [][\A p \in Procs :
       /\ CheckInAccepted(p) =>
            \E parsed \in BOOLEAN :
              canCheckIn(bookings[bloc'[p].bookingId], TRUE, parsed, hoursLeft)
       /\ (bpc[p] = "idle" /\ bcalls' # bcalls
             /\ reply'[p].message \in {"Check-in opens 24 hours before departure",
                                       "Check-in closes 1 hour before departure"}) =>
            \A i \in DOMAIN bookings : \A parsed \in BOOLEAN :
              ~canCheckIn(bookings[i], TRUE, parsed, hoursLeft)
    ]_vars

=============================================================================
